---- MODULE Spec2Model ----
(***************************************************************************)
(* Model of the sampling bridge of the Financial Datasets MCP server:      *)
(* the ai_financial_analysis / ai_market_insights tool handlers, the       *)
(* requestSampling resolver and its reply normalisation.                   *)
(***************************************************************************)
EXTENDS Integers, Sequences, FiniteSets, TLC

VARIABLES
    server,      \* the request-capable methods the Server object exposes
    request,     \* per invocation: the CallTool request (tool name, arguments)
    client,      \* per invocation: how the connected client answers the sampling call
    pc,          \* per invocation: position of the tool handler
    rs,          \* per invocation: position of requestSampling (resolver state)
    pending,     \* per invocation: the gets (positions in fetchLog) the handler is waiting for
    settled,     \* per invocation: the gets fulfilled (positions in fetchLog), as they completed
    tickerIdx,   \* per invocation: ai_market_insights loop index into tickers.slice(0, 5)
    tickerData,  \* per invocation: ai_market_insights tickerData, fields in own-property order
    fetchLog,    \* per invocation: every upstream get issued, in order
    fetchStatus, \* per invocation: the promise of each get of fetchLog, with its data
    logged,      \* per invocation: tickers whose data could not be got, as logged
    params,      \* per invocation: samplingParams built by requestSampling
    calls,       \* per invocation: every call handed to the transport, in order
    response,    \* per invocation: the value the transport call resolved with
    analysis,    \* per invocation: the value requestSampling returned
    outcome,     \* per invocation: what the tool handler produced (response or error)
    cli          \* the command line launcher: its inputs, position and effects

vars == <<server, request, client, pc, rs, pending, settled, tickerIdx, tickerData,
          fetchLog, fetchStatus, logged, params, calls, response, analysis, outcome, cli>>

-----------------------------------------------------------------------------
(* JSON / JavaScript values.  Every value is a record of one shape so that  *)
(* values of different JavaScript types can be compared.  An object keeps   *)
(* its fields as a sequence of <<key, value>> in the order JavaScript       *)
(* enumerates own properties (for...in, JSON.stringify): the keys that are  *)
(* canonical array indices first, in ascending numeric order, then the      *)
(* other keys in insertion order.                                           *)

\* the largest array index, 2^32 - 2, as its decimal string
MaxArrayIndex == "4294967294"

RECURSIVE AllDigits(_)
AllDigits(key) ==
    \/ key = ""
    \/ /\ Head(key) \in {"0", "1", "2", "3", "4", "5", "6", "7", "8", "9"}
       /\ AllDigits(Tail(key))

DigitValue(c) ==
    CASE c = "0" -> 0 [] c = "1" -> 1 [] c = "2" -> 2 [] c = "3" -> 3 [] c = "4" -> 4
      [] c = "5" -> 5 [] c = "6" -> 6 [] c = "7" -> 7 [] c = "8" -> 8 [] OTHER -> 9

\* a < b for two decimal strings of the same length
RECURSIVE DigitsLess(_, _)
DigitsLess(a, b) ==
    /\ a # ""
    /\ \/ DigitValue(Head(a)) < DigitValue(Head(b))
       \/ Head(a) = Head(b) /\ DigitsLess(Tail(a), Tail(b))

\* a < b for two canonical decimal strings
IndexLess(a, b) == Len(a) < Len(b) \/ (Len(a) = Len(b) /\ DigitsLess(a, b))

\* key is the canonical decimal string of an integer in 0 .. 2^32 - 2
IsArrayIndex(key) ==
    /\ key # ""
    /\ AllDigits(key)
    /\ Head(key) = "0" => key = "0"
    /\ key = MaxArrayIndex \/ IndexLess(key, MaxArrayIndex)

\* the fields in own-property order
OwnPropertyOrder(fields) ==
    IF \A n \in 1..Len(fields) : ~IsArrayIndex(fields[n][1]) THEN fields
    ELSE LET indexed == SelectSeq(fields, LAMBDA p : IsArrayIndex(p[1]))
             others == SelectSeq(fields, LAMBDA p : ~IsArrayIndex(p[1]))
             Rank(n) == Cardinality({m \in 1..Len(indexed) :
                                       IndexLess(indexed[m][1], indexed[n][1])})
         IN  [n \in 1..Len(indexed) |->
                 indexed[CHOOSE m \in 1..Len(indexed) : Rank(m) = n - 1]] \o others

JStr(s) == [k |-> "string", s |-> s, f |-> <<>>]
JNum(s) == [k |-> "number", s |-> s, f |-> <<>>]
JObj(fields) == [k |-> "object", s |-> "", f |-> OwnPropertyOrder(fields)]
JArr(items) == [k |-> "array", s |-> "", f |-> [n \in 1..Len(items) |-> <<"", items[n]>>]]
JNull == [k |-> "null", s |-> "", f |-> <<>>]
JUndefined == [k |-> "undefined", s |-> "", f |-> <<>>]

\* typeof v
TypeOf(v) ==
    CASE v.k = "string" -> "string"
      [] v.k = "number" -> "number"
      [] v.k = "undefined" -> "undefined"
      [] OTHER -> "object"

\* JavaScript truthiness of v
Truthy(v) ==
    CASE v.k = "string" -> v.s # ""
      [] v.k = "number" -> v.s # "0"
      [] v.k = "null" -> FALSE
      [] v.k = "undefined" -> FALSE
      [] OTHER -> TRUE

HasKey(v, key) == v.k = "object" /\ \E n \in 1..Len(v.f) : v.f[n][1] = key

\* v.key : undefined when v is a primitive or has no such property
Get(v, key) ==
    IF HasKey(v, key)
    THEN v.f[CHOOSE n \in 1..Len(v.f) : v.f[n][1] = key][2]
    ELSE JUndefined

IsString(v) == TypeOf(v) = "string"

\* a TypeError thrown while a value is computed, in the place of the value
JThrow(message) == [k |-> "throw", s |-> message, f |-> <<>>]
IsThrow(v) == v.k = "throw"

-----------------------------------------------------------------------------
(* findTextInObject: the recursive scan.  It returns a string value or     *)
(* null.                                                                    *)

RECURSIVE findTextInObject(_)
RECURSIVE ScanKeys(_, _)

\* the for (key in obj) loop from position n of the keys in own-property
\* order: the first truthy recursive result.  The guard calls
\* obj.hasOwnProperty, which is the value of an own key of that name when the
\* object has one (data, never a function): the call throws a TypeError.
ScanKeys(obj, n) ==
    IF n > Len(obj.f) THEN JNull
    ELSE IF HasKey(obj, "hasOwnProperty")
    THEN JThrow("obj.hasOwnProperty is not a function")
    ELSE LET result == findTextInObject(obj.f[n][2])
         IN  IF Truthy(result) THEN result ELSE ScanKeys(obj, n + 1)

\* a string, null, or the TypeError of the loop's guard, which passes up through
\* every enclosing call
findTextInObject(obj) ==
    IF IsThrow(obj) THEN obj
    ELSE IF IsString(obj) THEN obj
    ELSE IF TypeOf(obj) = "object" /\ obj.k # "null"
    THEN IF Truthy(Get(obj, "text")) /\ IsString(Get(obj, "text")) THEN Get(obj, "text")
         ELSE IF Truthy(Get(obj, "content")) /\ IsString(Get(obj, "content"))
              THEN Get(obj, "content")
         ELSE IF Truthy(Get(obj, "message")) /\ IsString(Get(obj, "message"))
              THEN Get(obj, "message")
         ELSE ScanKeys([obj EXCEPT !.f = OwnPropertyOrder(@)], 1)
    ELSE JNull

-----------------------------------------------------------------------------
(* Reply normalisation inside requestSampling.  A step of the resolver      *)
(* either yields a value or throws an Error whose message is a sequence of  *)
(* text pieces (a prefix added by a catch block is one more piece in front).*)

Returned(shape, value) == [thrown |-> FALSE, shape |-> shape, value |-> value, error |-> <<>>]
Thrown(message) == [thrown |-> TRUE, shape |-> "", value |-> JUndefined, error |-> message]

NoTextMessage == <<"No text content found in sampling response">>
UnexpectedFormatMessage == <<"Received unexpected response format from sampling request">>
NotAStringMessage == <<"extractedText.substring is not a function">>

\* ExtractText with the standard format reading content.type instead of content.text
ExtractTextWrongField(resp) ==
    IF Truthy(resp) /\ TypeOf(resp) = "object"
    THEN IF /\ Truthy(Get(resp, "content"))
            /\ Get(Get(resp, "content"), "type") = JStr("text")
            /\ Truthy(Get(Get(resp, "content"), "text"))
         THEN Returned("content.text", Get(Get(resp, "content"), "type"))
         ELSE LET textValue == findTextInObject(resp)
              IN  IF IsThrow(textValue)
                  THEN Thrown(<<textValue.s>>)
                  ELSE IF Truthy(textValue)
                  THEN Returned("found recursively", textValue)
                  ELSE Thrown(NoTextMessage)
    ELSE IF IsString(resp)
    THEN Returned("string", resp)
    ELSE Thrown(UnexpectedFormatMessage)

\* the if / else-if cascade over the response formats
ExtractText(resp) ==
    IF Truthy(resp) /\ TypeOf(resp) = "object"
    THEN IF /\ Truthy(Get(resp, "content"))
            /\ Get(Get(resp, "content"), "type") = JStr("text")
            /\ Truthy(Get(Get(resp, "content"), "text"))
         THEN Returned("content.text", Get(Get(resp, "content"), "text"))
         ELSE IF Truthy(Get(resp, "text")) /\ IsString(Get(resp, "text"))
         THEN Returned(".text", Get(resp, "text"))
         ELSE IF /\ Truthy(Get(resp, "result"))
                 /\ Truthy(Get(Get(resp, "result"), "content"))
                 /\ Truthy(Get(Get(Get(resp, "result"), "content"), "text"))
         THEN Returned("result.content.text", Get(Get(Get(resp, "result"), "content"), "text"))
         ELSE IF IsString(Get(resp, "content"))
         THEN Returned("content as string", Get(resp, "content"))
         ELSE LET textValue == findTextInObject(resp)
              IN  IF IsThrow(textValue)
                  THEN Thrown(<<textValue.s>>)
                  ELSE IF Truthy(textValue)
                  THEN Returned("found recursively", textValue)
                  ELSE Thrown(NoTextMessage)
    ELSE IF IsString(resp)
    THEN Returned("string", resp)
    ELSE Thrown(UnexpectedFormatMessage)

\* LogExtracted logging whatever was extracted without calling a string method on it
LogExtractedAnyValue(extracted) == extracted

\* the logging of the extracted text: .substring exists on strings only
LogExtracted(extracted) ==
    IF extracted.thrown \/ IsString(extracted.value)
    THEN extracted
    ELSE Thrown(NotAStringMessage)

\* the try / catch (parseError) around extraction and logging
NormalizeReply(resp) ==
    LET r == LogExtracted(ExtractText(resp))
    IN  IF r.thrown
        THEN Thrown(<<"Failed to parse sampling response: ">> \o r.error)
        ELSE r

-----------------------------------------------------------------------------
(* Text built from templates.  A text is a sequence of pieces: a literal of *)
(* the template, an interpolated argument, an interpolated value, the       *)
(* pretty-printed JSON of a value, a joined list, or the current time.      *)

Lit(s) == [k |-> "lit", s |-> s, j |-> JUndefined]
Arg(s) == [k |-> "arg", s |-> s, j |-> JUndefined]
Json(j) == [k |-> "json", s |-> "", j |-> j]
Joined(items) == [k |-> "join", s |-> ", ", j |-> JArr([n \in 1..Len(items) |-> JStr(items[n])])]
Value(j) == [k |-> "value", s |-> j.s, j |-> JUndefined]
IsoNow == [k |-> "time", s |-> "", j |-> JUndefined]

-----------------------------------------------------------------------------
(* Tool arguments.  A request carries the tool name, the set of argument    *)
(* names the caller supplied, and their values.                             *)

FinancialTool == "ai_financial_analysis"
MarketTool == "ai_market_insights"

FinancialDefaults == [ticker |-> "", analysis_type |-> "comprehensive", context |-> ""]
MarketDefaults == [focus_area |-> "overall_market", tickers |-> <<>>, context |-> ""]

\* safeGetArgs: every key of the defaults, overridden when the caller supplied it
safeGetArgs(req, defaultValues) ==
    [key \in DOMAIN defaultValues |->
        IF key \in req.given THEN req.arguments[key] ELSE defaultValues[key]]

TickerLimit == 5
TickerListLimit == 10
MaxTokens == 4000

\* array.slice(0, n)
Slice(seq, n) == SubSeq(seq, 1, IF Len(seq) < n THEN Len(seq) ELSE n)

-----------------------------------------------------------------------------
(* Upstream API data, as the handlers read it from response.data.           *)

CompanyFacts(t) == JObj(<< <<"ticker", JStr(t)>>, <<"name", JStr("company")>> >>)
MetricsSnapshot(t) == JObj(<< <<"ticker", JStr(t)>>, <<"pe", JNum("25")>> >>)
PriceSnapshot(t) == JObj(<< <<"ticker", JStr(t)>>, <<"price", JNum("195")>> >>)

UpstreamError == <<"Request failed with status code 500">>

\* obj[key] = value on an object: an existing key keeps its place, a new key
\* takes the place own-property order gives it; an assignment to __proto__ sets
\* the prototype (or does nothing) and makes no own property
SetField(fields, key, value) ==
    IF key = "__proto__" THEN fields
    ELSE IF \E n \in 1..Len(fields) : fields[n][1] = key
    THEN [n \in 1..Len(fields) |-> IF fields[n][1] = key THEN <<key, value>> ELSE fields[n]]
    ELSE OwnPropertyOrder(Append(fields, <<key, value>>))

-----------------------------------------------------------------------------
(* Sampling request builder: the messages and prompts of the two tools.     *)

\* ContextSection emitting the heading for an empty context too
ContextSectionAlways(context) == <<Lit("**Additional Context:** "), Arg(context)>>

\* the ${args.context ? `**Additional Context:** ${args.context}` : ''} line
ContextSection(context) ==
    IF context # "" THEN <<Lit("**Additional Context:** "), Arg(context)>> ELSE <<>>

\* the ${args.tickers?.length ? `**Specific Tickers:** ...` : ''} line
TickersSection(tickers) ==
    IF Len(tickers) > 0 THEN <<Lit("**Specific Tickers:** "), Joined(tickers)>> ELSE <<>>

\* UserMessage with the prompt sent in the assistant's role
UserMessageAsAssistant(text) == [role |-> "assistant", content |-> [type |-> "text", text |-> text]]

UserMessage(text) == [role |-> "user", content |-> [type |-> "text", text |-> text]]

FinancialMessages(args, companyFacts, metrics, priceData) ==
    << UserMessage(
        << Lit("Please provide a "), Arg(args.analysis_type),
           Lit(" financial analysis for "), Arg(args.ticker),
           Lit(".\n\n**Company Data:**\n"), Json(companyFacts),
           Lit("\n\n**Financial Metrics:**\n"), Json(metrics),
           Lit("\n\n**Current Price Data:**\n"), Json(priceData),
           Lit("\n\n**Analysis Type:** "), Arg(args.analysis_type), Lit("\n") >>
        \o ContextSection(args.context)
        \o << Lit("\n\nPlease provide detailed insights, key findings, and actionable recommendations.") >>) >>

FinancialSystemPrompt(args) ==
    << Lit("You are an expert financial analyst. Provide comprehensive, accurate, and actionable financial analysis based on the provided data. Focus on "),
       Arg(args.analysis_type),
       Lit(" analysis and include specific numbers, ratios, and concrete recommendations.") >>

FinancialPreferences ==
    [hints |-> <<"claude-3-sonnet", "gpt-4">>,
     intelligencePriority |-> 95, speedPriority |-> 40, costPriority |-> 30]

MarketMessages(args, marketData) ==
    << UserMessage(
        << Lit("Please provide market insights and analysis focusing on: "), Arg(args.focus_area),
           Lit("\n\n**Market Data:**\n"), Json(marketData),
           Lit("\n\n**Focus Area:** "), Arg(args.focus_area), Lit("\n") >>
        \o ContextSection(args.context)
        \o << Lit("\n") >>
        \o TickersSection(args.tickers)
        \o << Lit("\n\nPlease provide comprehensive market analysis, trends, risks, and opportunities.") >>) >>

MarketSystemPrompt(args) ==
    << Lit("You are an expert market analyst. Provide comprehensive market insights covering current trends, sector analysis, risk assessment, and investment opportunities. Focus on "),
       Arg(args.focus_area),
       Lit(" and provide actionable recommendations.") >>

MarketPreferences ==
    [hints |-> <<"claude-3-sonnet", "gpt-4">>,
     intelligencePriority |-> 90, speedPriority |-> 50, costPriority |-> 40]

-----------------------------------------------------------------------------
(* requestSampling: parameters, capability probe, transport call.           *)
(* Priorities are kept in hundredths (0.95 is 95).                          *)

DefaultSystemPrompt ==
    << Lit("You are a financial analysis expert. Provide clear, accurate, and actionable insights.") >>

DefaultPreferences ==
    [hints |-> <<"claude-3-sonnet", "gpt-4", "claude">>,
     intelligencePriority |-> 90, speedPriority |-> 60, costPriority |-> 40]

\* modelPreferences left out by the caller (undefined): no object a caller can pass
NoPreferences ==
    [hints |-> <<>>, intelligencePriority |-> -1, speedPriority |-> -1, costPriority |-> -1]

NoParams ==
    [messages |-> <<>>, systemPrompt |-> <<>>, modelPreferences |-> NoPreferences, maxTokens |-> 0]

\* SamplingParams handing the caller's modelPreferences on as they are
SamplingParamsNoDefault(messages, systemPrompt, modelPreferences) ==
    [messages |-> messages,
     systemPrompt |-> IF systemPrompt # <<>> THEN systemPrompt ELSE DefaultSystemPrompt,
     modelPreferences |-> modelPreferences,
     maxTokens |-> MaxTokens]

\* SamplingParams handing the caller's systemPrompt on as it is
SamplingParamsNoPersona(messages, systemPrompt, modelPreferences) ==
    [messages |-> messages,
     systemPrompt |-> systemPrompt,
     modelPreferences |->
        IF modelPreferences # NoPreferences THEN modelPreferences ELSE DefaultPreferences,
     maxTokens |-> MaxTokens]

\* samplingParams; an omitted systemPrompt is <<>>, omitted modelPreferences NoPreferences
SamplingParams(messages, systemPrompt, modelPreferences) ==
    [messages |-> messages,
     systemPrompt |-> IF systemPrompt # <<>> THEN systemPrompt ELSE DefaultSystemPrompt,
     modelPreferences |->
        IF modelPreferences # NoPreferences THEN modelPreferences ELSE DefaultPreferences,
     maxTokens |-> MaxTokens]

Methods == {"requestSampling", "createMessage", "sendRequest", "request"}

\* SelectMethod probing the generic request method before the sampling ones
SelectMethodRequestFirst(srv) ==
    IF "request" \in srv THEN "request"
    ELSE IF "sendRequest" \in srv THEN "sendRequest"
    ELSE IF "createMessage" \in srv THEN "createMessage"
    ELSE IF "requestSampling" \in srv THEN "requestSampling"
    ELSE ""

\* the method the probe selects: "" when the server has none of them
SelectMethod(srv) ==
    IF "requestSampling" \in srv THEN "requestSampling"
    ELSE IF "createMessage" \in srv THEN "createMessage"
    ELSE IF "sendRequest" \in srv THEN "sendRequest"
    ELSE IF "request" \in srv THEN "request"
    ELSE ""

SamplingMethodId == "sampling/createMessage"

\* TransportCall handing requestObject to every method
TransportCallAlwaysWrapped(methodName, samplingParams) ==
    [via |-> methodName, fields |-> {"method", "params"},
     method |-> SamplingMethodId, params |-> samplingParams]

\* what is handed to the selected method: samplingParams itself, or requestObject
TransportCall(methodName, samplingParams) ==
    IF methodName \in {"requestSampling", "createMessage"}
    THEN [via |-> methodName, fields |-> DOMAIN samplingParams,
          method |-> "", params |-> samplingParams]
    ELSE [via |-> methodName, fields |-> {"method", "params"},
          method |-> SamplingMethodId, params |-> samplingParams]

\* NoMethodMessage worded like the TypeError of a failed property read
NoMethodMessageAsTypeError == <<"Cannot read properties of undefined", " (reading 'request')">>

NoMethodMessage == <<"Server instance does not support making requests to client">>
Signature == "Cannot read properties of undefined"

\* requestError.message.includes('Cannot read properties of undefined')
HasSignature(message) == \E n \in 1..Len(message) : message[n] = Signature

\* the placeholder text returned at line 229, heading and body in full.  Each
\* warning sign U+26A0 of the source is followed by the variation selector
\* U+FE0F, a character no string literal of the language can hold: the text is
\* written as the sequence of its pieces, the selector as its UTF-16 code unit
\* 65039 (487 code units in all)
FallbackText ==
    JStr(<<"⚠", 65039, " **AI Analysis Not Available** ⚠", 65039,
           "\n\nSampling request failed due to MCP SDK limitations. The server can send sampling requests to the client, but cannot receive the responses properly.\n\n**Technical Details:**\n- Client successfully receives sampling requests\n- Client generates LLM responses\n- Server fails to parse the response due to MCP SDK issue\n\n**Workaround needed:** This requires fixing the MCP transport layer or using a different approach for server-to-client sampling requests.">>)

\* console.error is replaced by a function that writes JSON.stringify(arg) of
\* every argument of type object to the log file (lines 32-35); the message of
\* the TypeError JSON.stringify throws for an Error whose own property self is
\* the Error
CircularMessage ==
    <<"Converting circular structure to JSON",
      "\n    --> starting at object with constructor 'Error'\n    --- property 'self' closes the circle">>

\* OnRequestError returning the placeholder for every Error
OnRequestErrorAnyError(err) ==
    IF err.circular THEN Thrown(CircularMessage)
    ELSE IF err.isError
    THEN Returned("fallback", FallbackText)
    ELSE Thrown(<<"Sampling request failed: ">> \o <<"Unknown error">>)

\* the catch (requestError) block.  Its first statement hands requestError to
\* console.error (215), which throws out of the block when the error cannot be
\* serialised, whatever its message; otherwise the placeholder for an Error
\* with the signature, or a rethrow
OnRequestError(err) ==
    IF err.circular THEN Thrown(CircularMessage)
    ELSE IF err.isError /\ HasSignature(err.message)
    THEN Returned("fallback", FallbackText)
    ELSE Thrown(<<"Sampling request failed: ">>
                \o (IF err.isError THEN err.message ELSE <<"Unknown error">>))

\* OuterCatch throwing the error on as it caught it
OuterCatchRethrows(r) == r

\* the outer catch (error) block of requestSampling
OuterCatch(r) ==
    IF r.thrown THEN Thrown(<<"Failed to request LLM analysis: ">> \o r.error) ELSE r

-----------------------------------------------------------------------------
(* Tool responses and tool errors.                                          *)

NoOutcome == [kind |-> "none", content |-> <<>>, error |-> <<>>]
\* { content: [{ type: "text", text }] }
ToolResponse(text) ==
    [kind |-> "response", content |-> << [type |-> "text", text |-> text] >>, error |-> <<>>]
ToolError(message) == [kind |-> "error", content |-> <<>>, error |-> message]

\* FinancialResponseText ending with the analysis, the provenance lines left out
FinancialResponseTextNoFooter(args, analysisText) ==
    << Lit("AI Financial Analysis for "), Arg(args.ticker), Lit(" ("), Arg(args.analysis_type),
       Lit("):\n\n"), Value(analysisText) >>

FinancialResponseText(args, analysisText) ==
    << Lit("AI Financial Analysis for "), Arg(args.ticker), Lit(" ("), Arg(args.analysis_type),
       Lit("):\n\n"), Value(analysisText),
       Lit("\n\n---\nData Sources: Company Facts, Financial Metrics, Current Price Data\nAnalysis Generated: "),
       IsoNow >>

\* ${args.tickers?.length || 'General Market'}
DataCoverage(args) ==
    IF Len(args.tickers) # 0 THEN Value(JNum(ToString(Len(args.tickers))))
    ELSE Lit("General Market")

MarketResponseText(args, insights) ==
    << Lit("AI Market Insights ("), Arg(args.focus_area), Lit("):\n\n"), Value(insights),
       Lit("\n\n---\nAnalysis Focus: "), Arg(args.focus_area),
       Lit("\nData Coverage: "), DataCoverage(args), Lit("\nGenerated: "), IsoNow >>

FinancialFailure == "Failed to generate AI financial analysis: "
MarketFailure == "Failed to generate AI market insights: "

\* the catch block of the tool's case in the CallTool handler
HandlerCatch(tool, message) ==
    ToolError(<<IF tool = FinancialTool THEN FinancialFailure ELSE MarketFailure>> \o message)

-----------------------------------------------------------------------------
(* State and actions.                                                       *)

Inv == DOMAIN pc
ArgsOf(i) ==
    IF request[i].name = FinancialTool
    THEN safeGetArgs(request[i], FinancialDefaults)
    ELSE safeGetArgs(request[i], MarketDefaults)

NoResult == [thrown |-> FALSE, shape |-> "", value |-> JUndefined, error |-> <<>>]

FinancialGets(t) == << <<"/company/facts", t>>, <<"/financial-metrics/snapshot", t>>,
                       <<"/prices/snapshot", t>> >>
TickerGets(t) == << <<"/company/facts", t>>, <<"/financial-metrics/snapshot", t>> >>
TickerListGet == <<"/company/facts/tickers/", "">>

UpstreamTickerLists == {<<>>, <<"AAPL", "MSFT">>}

\* what the upstream API answers to a get, as the handlers read it from response.data
UpstreamData(get) ==
    CASE get[1] = "/company/facts" -> {CompanyFacts(get[2])}
      [] get[1] = "/financial-metrics/snapshot" -> {MetricsSnapshot(get[2])}
      [] get[1] = "/prices/snapshot" -> {PriceSnapshot(get[2])}
      [] OTHER -> {JArr([n \in 1..Len(list) |-> JStr(list[n])]) : list \in UpstreamTickerLists}

\* the promise of a get: in flight, fulfilled with the data, or rejected
InFlight == [state |-> "inflight", data |-> JUndefined]
FulfilledWith(data) == [state |-> "fulfilled", data |-> data]
RejectedGet == [state |-> "rejected", data |-> JUndefined]

\* the gets of one Promise.all([...]) (or one await) are issued together
Issue(i, gets) ==
    /\ fetchLog' = [fetchLog EXCEPT ![i] = @ \o gets]
    /\ fetchStatus' = [fetchStatus EXCEPT ![i] = @ \o [n \in 1..Len(gets) |-> InFlight]]
    /\ pending' = [pending EXCEPT ![i] =
                     (Len(fetchLog[i]) + 1)..(Len(fetchLog[i]) + Len(gets))]

\* JoinResults handing the results over in the order the gets completed
JoinResultsByCompletion(status, order, awaited) ==
    LET done == SelectSeq(order, LAMBDA n : n \in awaited)
    IN  [k \in 1..Len(done) |-> status[done[k]].data]

\* const [a, b, c] = await Promise.all([...]): the results in the order of the array
JoinResults(status, order, awaited) ==
    LET first == CHOOSE n \in awaited : \A m \in awaited : n <= m
    IN  [k \in 1..Cardinality(awaited) |-> status[first + k - 1].data]

\* AllFulfilled going on as soon as one of the gets waited for is fulfilled
AnyFulfilled(i) == \E n \in pending[i] : fetchStatus[i][n].state = "fulfilled"

\* Promise.all resolves: every get it waits for is fulfilled
AllFulfilled(i) == \A n \in pending[i] : fetchStatus[i][n].state = "fulfilled"

\* ai_financial_analysis: argument check, then the three gets are issued together
CallFinancial(i) ==
    /\ pc[i] = "received"
    /\ request[i].name = FinancialTool
    /\ LET args == ArgsOf(i)
       IN  IF args.ticker = ""
           THEN /\ outcome' = [outcome EXCEPT ![i] =
                                 ToolError(<<"Ticker is required for AI financial analysis">>)]
                /\ pc' = [pc EXCEPT ![i] = "threw"]
                /\ UNCHANGED <<pending, fetchLog, fetchStatus>>
           ELSE /\ Issue(i, FinancialGets(args.ticker))
                /\ pc' = [pc EXCEPT ![i] = "fetching"]
                /\ UNCHANGED outcome
    /\ UNCHANGED <<server, request, client, cli, rs, settled, tickerIdx, tickerData, logged,
                   params, calls, response, analysis>>

\* one of the gets a Promise.all waits for is fulfilled
FetchFulfilled(i) ==
    /\ pc[i] \in {"fetching", "tickerJoin"}
    /\ \E n \in pending[i] :
          /\ fetchStatus[i][n].state = "inflight"
          /\ \E data \in UpstreamData(fetchLog[i][n]) :
                fetchStatus' = [fetchStatus EXCEPT ![i][n] = FulfilledWith(data)]
          /\ settled' = [settled EXCEPT ![i] = Append(@, n)]
    /\ UNCHANGED <<server, request, client, cli, pc, rs, pending, tickerIdx, tickerData,
                   fetchLog, logged, params, calls, response, analysis, outcome>>

\* FetchRejected taking a rejected get for one that brought no data and going on
FetchRejectedDegrades(i) ==
    /\ pc[i] = "fetching"
    /\ \E n \in pending[i] :
          /\ fetchStatus[i][n].state = "inflight"
          /\ fetchStatus' = [fetchStatus EXCEPT ![i][n] = RejectedGet]
          /\ pending' = [pending EXCEPT ![i] = @ \ {n}]
    /\ UNCHANGED <<server, request, client, cli, pc, rs, settled, tickerIdx, tickerData,
                   fetchLog, logged, params, calls, response, analysis, outcome>>

\* one of the three gets is rejected: Promise.all rejects at once, the handler's catch
\* runs; the other gets stay in flight, nothing waits for them any more
FetchRejected(i) ==
    /\ pc[i] = "fetching"
    /\ \E n \in pending[i] :
          /\ fetchStatus[i][n].state = "inflight"
          /\ fetchStatus' = [fetchStatus EXCEPT ![i][n] = RejectedGet]
    /\ pending' = [pending EXCEPT ![i] = {}]
    /\ outcome' = [outcome EXCEPT ![i] = HandlerCatch(request[i].name, UpstreamError)]
    /\ pc' = [pc EXCEPT ![i] = "threw"]
    /\ UNCHANGED <<server, request, client, cli, rs, settled, tickerIdx, tickerData,
                   fetchLog, logged, params, calls, response, analysis>>

\* a get nothing waits for any more settles, either way
OrphanSettles(i) ==
    /\ \E n \in (1..Len(fetchLog[i])) \ pending[i] :
          /\ fetchStatus[i][n].state = "inflight"
          /\ \/ /\ \E data \in UpstreamData(fetchLog[i][n]) :
                      fetchStatus' = [fetchStatus EXCEPT ![i][n] = FulfilledWith(data)]
                /\ settled' = [settled EXCEPT ![i] = Append(@, n)]
             \/ /\ fetchStatus' = [fetchStatus EXCEPT ![i][n] = RejectedGet]
                /\ UNCHANGED settled
    /\ UNCHANGED <<server, request, client, cli, pc, rs, pending, tickerIdx, tickerData,
                   fetchLog, logged, params, calls, response, analysis, outcome>>

\* Promise.all resolved: messages are built and requestSampling builds samplingParams
FinancialBuild(i) ==
    /\ pc[i] = "fetching"
    /\ pending[i] # {}
    /\ AllFulfilled(i)
    /\ LET args == ArgsOf(i)
           results == JoinResults(fetchStatus[i], settled[i], pending[i])
       IN  params' = [params EXCEPT ![i] =
                        SamplingParams(
                            FinancialMessages(args, results[1], results[2], results[3]),
                            FinancialSystemPrompt(args), FinancialPreferences)]
    /\ pending' = [pending EXCEPT ![i] = {}]
    /\ pc' = [pc EXCEPT ![i] = "sampling"]
    /\ rs' = [rs EXCEPT ![i] = "DISPATCHING"]
    /\ UNCHANGED <<server, request, client, cli, settled, tickerIdx, tickerData, fetchLog,
                   fetchStatus, logged, calls, response, analysis, outcome>>

GeneralNote == JStr("General market data not available, providing analysis based on focus area")

\* ai_market_insights: the ticker loop is entered, or the ticker list get is issued
CallMarket(i) ==
    /\ pc[i] = "received"
    /\ request[i].name = MarketTool
    /\ IF Len(ArgsOf(i).tickers) > 0
       THEN /\ pc' = [pc EXCEPT ![i] = "tickers"]
            /\ tickerIdx' = [tickerIdx EXCEPT ![i] = 1]
            /\ UNCHANGED <<pending, fetchLog, fetchStatus>>
       ELSE /\ pc' = [pc EXCEPT ![i] = "general"]
            /\ Issue(i, <<TickerListGet>>)
            /\ UNCHANGED tickerIdx
    /\ UNCHANGED <<server, request, client, cli, rs, settled, tickerData, logged,
                   params, calls, response, analysis, outcome>>

\* one iteration of for (const ticker of args.tickers.slice(0, 5)): both gets are issued
TickerIteration(i) ==
    /\ pc[i] = "tickers"
    /\ tickerIdx[i] <= Len(Slice(ArgsOf(i).tickers, TickerLimit))
    /\ Issue(i, TickerGets(Slice(ArgsOf(i).tickers, TickerLimit)[tickerIdx[i]]))
    /\ pc' = [pc EXCEPT ![i] = "tickerJoin"]
    /\ UNCHANGED <<server, request, client, cli, rs, settled, tickerIdx, tickerData, logged,
                   params, calls, response, analysis, outcome>>

\* both gets of the ticker are fulfilled: tickerData[ticker] = { facts, metrics }
TickerFulfilled(i) ==
    /\ pc[i] = "tickerJoin"
    /\ AllFulfilled(i)
    /\ LET ticker == Slice(ArgsOf(i).tickers, TickerLimit)[tickerIdx[i]]
           results == JoinResults(fetchStatus[i], settled[i], pending[i])
       IN  tickerData' = [tickerData EXCEPT ![i] =
                            SetField(@, ticker, JObj(<< <<"facts", results[1]>>,
                                                        <<"metrics", results[2]>> >>))]
    /\ pending' = [pending EXCEPT ![i] = {}]
    /\ tickerIdx' = [tickerIdx EXCEPT ![i] = @ + 1]
    /\ pc' = [pc EXCEPT ![i] = "tickers"]
    /\ UNCHANGED <<server, request, client, cli, rs, settled, fetchLog, fetchStatus, logged,
                   params, calls, response, analysis, outcome>>

\* one of the two gets of the ticker is rejected: the inner catch logs the failure and
\* the loop goes on; the other get may still be in flight
TickerRejected(i) ==
    /\ pc[i] = "tickerJoin"
    /\ \E n \in pending[i] :
          /\ fetchStatus[i][n].state = "inflight"
          /\ fetchStatus' = [fetchStatus EXCEPT ![i][n] = RejectedGet]
    /\ logged' = [logged EXCEPT ![i] =
                    Append(@, Slice(ArgsOf(i).tickers, TickerLimit)[tickerIdx[i]])]
    /\ pending' = [pending EXCEPT ![i] = {}]
    /\ tickerIdx' = [tickerIdx EXCEPT ![i] = @ + 1]
    /\ pc' = [pc EXCEPT ![i] = "tickers"]
    /\ UNCHANGED <<server, request, client, cli, rs, settled, tickerData, fetchLog,
                   params, calls, response, analysis, outcome>>

\* the messages of ai_market_insights are built and requestSampling builds samplingParams
MarketSampling(i, marketData) ==
    /\ LET args == ArgsOf(i)
       IN  params' = [params EXCEPT ![i] =
                        SamplingParams(MarketMessages(args, marketData), MarketSystemPrompt(args),
                                       MarketPreferences)]
    /\ pc' = [pc EXCEPT ![i] = "sampling"]
    /\ rs' = [rs EXCEPT ![i] = "DISPATCHING"]

\* the loop is over: marketData = { specificTickers: tickerData }
MarketBuild(i) ==
    /\ pc[i] = "tickers"
    /\ tickerIdx[i] > Len(Slice(ArgsOf(i).tickers, TickerLimit))
    /\ MarketSampling(i, JObj(<< <<"specificTickers", JObj(tickerData[i])>> >>))
    /\ UNCHANGED <<server, request, client, cli, pending, settled, tickerIdx, tickerData,
                   fetchLog, fetchStatus, logged, calls, response, analysis, outcome>>

\* the ticker list get is fulfilled: marketData = { availableTickers, sampleSize }
GeneralFulfilled(i) ==
    /\ pc[i] = "general"
    /\ \E n \in pending[i] : \E data \in UpstreamData(fetchLog[i][n]) :
          LET availableTickers == Slice([k \in 1..Len(data.f) |-> data.f[k][2]], TickerListLimit)
          IN  /\ fetchStatus' = [fetchStatus EXCEPT ![i][n] = FulfilledWith(data)]
              /\ settled' = [settled EXCEPT ![i] = Append(@, n)]
              /\ MarketSampling(i,
                    JObj(<< <<"availableTickers", JArr(availableTickers)>>,
                            <<"sampleSize", JNum(ToString(Len(availableTickers)))>> >>))
    /\ pending' = [pending EXCEPT ![i] = {}]
    /\ UNCHANGED <<server, request, client, cli, tickerIdx, tickerData, fetchLog, logged,
                   calls, response, analysis, outcome>>

\* the ticker list get is rejected: marketData = { note }
GeneralRejected(i) ==
    /\ pc[i] = "general"
    /\ \E n \in pending[i] :
          fetchStatus' = [fetchStatus EXCEPT ![i][n] = RejectedGet]
    /\ MarketSampling(i, JObj(<< <<"note", GeneralNote>> >>))
    /\ pending' = [pending EXCEPT ![i] = {}]
    /\ UNCHANGED <<server, request, client, cli, settled, tickerIdx, tickerData, fetchLog,
                   logged, calls, response, analysis, outcome>>

\* AfterRequestError going back to the probe after a failed call
AfterRequestErrorRetry(r) == IF r.thrown THEN "DISPATCHING" ELSE "FALLBACK"

\* resolver state after the catch (requestError) block
AfterRequestError(r) == IF r.thrown THEN "FAILED" ELSE "FALLBACK"

\* AfterNormalize leaving the resolver where it is, to normalise the reply again
AfterNormalizeAgain(r) == "NORMALIZING"

\* resolver state after normalisation
AfterNormalize(r) == IF r.thrown THEN "FAILED" ELSE "DONE"

\* OwnParams reading one samplingParams kept at module level, which the invocation
\* that built its request last has overwritten
SharedParams(i) ==
    LET built == {j \in Inv : params[j] # NoParams}
    IN  params[CHOOSE j \in built : \A k \in built : j >= k]

\* the samplingParams constant of this call of requestSampling
OwnParams(i) == params[i]

\* the capability probe and the call of the selected method
Dispatch(i) ==
    /\ rs[i] = "DISPATCHING"
    /\ LET methodName == SelectMethod(server)
       IN  IF methodName = ""
           THEN LET r == OuterCatch(OnRequestError([isError |-> TRUE, message |-> NoMethodMessage,
                                                           circular |-> FALSE]))
                IN  /\ analysis' = [analysis EXCEPT ![i] = r]
                    /\ rs' = [rs EXCEPT ![i] = AfterRequestError(r)]
                    /\ UNCHANGED calls
           ELSE /\ calls' = [calls EXCEPT ![i] =
                                 Append(@, TransportCall(methodName, OwnParams(i)))]
                /\ rs' = [rs EXCEPT ![i] = "AWAITING"]
                /\ UNCHANGED analysis
    /\ UNCHANGED <<server, request, client, cli, pc, pending, settled, tickerIdx, tickerData,
                   fetchLog, fetchStatus, logged, params, response, outcome>>

\* the transport call resolves with the client's reply
TransportResolves(i) ==
    /\ rs[i] = "AWAITING"
    /\ client[i].kind = "resolve"
    /\ response' = [response EXCEPT ![i] = client[i].reply]
    /\ rs' = [rs EXCEPT ![i] = "NORMALIZING"]
    /\ UNCHANGED <<server, request, client, cli, pc, pending, settled, tickerIdx, tickerData,
                   fetchLog, fetchStatus, logged, params, calls, analysis, outcome>>

\* TransportRejects with a timer that rejects a call the client never answers
TransportRejectsOrTimesOut(i) ==
    /\ rs[i] = "AWAITING"
    /\ client[i].kind \in {"reject", "never"}
    /\ LET err == IF client[i].kind = "never"
                  THEN [isError |-> TRUE, message |-> <<"Request timed out">>,
                        circular |-> FALSE]
                  ELSE client[i]
           r == OuterCatch(OnRequestError(err))
       IN  /\ analysis' = [analysis EXCEPT ![i] = r]
           /\ rs' = [rs EXCEPT ![i] = AfterRequestError(r)]
    /\ UNCHANGED <<server, request, client, cli, pc, pending, settled, tickerIdx, tickerData,
                   fetchLog, fetchStatus, logged, params, calls, response, outcome>>

\* the transport call rejects: the catch (requestError) block, then the outer catch
TransportRejects(i) ==
    /\ rs[i] = "AWAITING"
    /\ client[i].kind = "reject"
    /\ LET r == OuterCatch(OnRequestError(client[i]))
       IN  /\ analysis' = [analysis EXCEPT ![i] = r]
           /\ rs' = [rs EXCEPT ![i] = AfterRequestError(r)]
    /\ UNCHANGED <<server, request, client, cli, pc, pending, settled, tickerIdx, tickerData,
                   fetchLog, fetchStatus, logged, params, calls, response, outcome>>

\* the reply is normalised: extracted text, or an error through both catch blocks
Normalize(i) ==
    /\ rs[i] = "NORMALIZING"
    /\ LET r == OuterCatch(NormalizeReply(response[i]))
       IN  /\ analysis' = [analysis EXCEPT ![i] = r]
           /\ rs' = [rs EXCEPT ![i] = AfterNormalize(r)]
    /\ UNCHANGED <<server, request, client, cli, pc, pending, settled, tickerIdx, tickerData,
                   fetchLog, fetchStatus, logged, params, calls, response, outcome>>

\* HandlerReturns taking the placeholder for a failure of the tool
HandlerReturnsFailsOnFallback(i) ==
    /\ pc[i] = "sampling"
    /\ rs[i] \in {"DONE", "FALLBACK"}
    /\ outcome' = [outcome EXCEPT ![i] =
          IF rs[i] = "FALLBACK"
          THEN HandlerCatch(request[i].name, <<analysis[i].value.s>>)
          ELSE IF request[i].name = FinancialTool
          THEN ToolResponse(FinancialResponseText(ArgsOf(i), analysis[i].value))
          ELSE ToolResponse(MarketResponseText(ArgsOf(i), analysis[i].value))]
    /\ pc' = [pc EXCEPT ![i] = "returned"]
    /\ UNCHANGED <<server, request, client, cli, rs, pending, settled, tickerIdx, tickerData,
                   fetchLog, fetchStatus, logged, params, calls, response, analysis>>

\* requestSampling returned: the handler wraps the text into the tool response
HandlerReturns(i) ==
    /\ pc[i] = "sampling"
    /\ rs[i] \in {"DONE", "FALLBACK"}
    /\ outcome' = [outcome EXCEPT ![i] =
          IF request[i].name = FinancialTool
          THEN ToolResponse(FinancialResponseText(ArgsOf(i), analysis[i].value))
          ELSE ToolResponse(MarketResponseText(ArgsOf(i), analysis[i].value))]
    /\ pc' = [pc EXCEPT ![i] = "returned"]
    /\ UNCHANGED <<server, request, client, cli, rs, pending, settled, tickerIdx, tickerData,
                   fetchLog, fetchStatus, logged, params, calls, response, analysis>>

\* requestSampling threw: the handler's catch turns it into the tool error
HandlerThrows(i) ==
    /\ pc[i] = "sampling"
    /\ rs[i] = "FAILED"
    /\ outcome' = [outcome EXCEPT ![i] = HandlerCatch(request[i].name, analysis[i].error)]
    /\ pc' = [pc EXCEPT ![i] = "threw"]
    /\ UNCHANGED <<server, request, client, cli, rs, pending, settled, tickerIdx, tickerData,
                   fetchLog, fetchStatus, logged, params, calls, response, analysis>>

-----------------------------------------------------------------------------
(* Inputs: tool requests, client behaviours, replies.                       *)

MaxTickers == 2

AnalysisTypes == {"comprehensive", "valuation", "risks", "opportunities", "comparison"}
FocusAreas == {"overall_market", "sector_analysis", "economic_indicators", "risk_assessment"}

TickerInputs == {"", "AAPL"}
AnalysisTypeInputs == {"comprehensive", "risks", "day_trading"}
FocusAreaInputs == {"overall_market", "crypto"}
ContextInputs == {"", "ctx"}
TickerNames == {"AAPL", "MSFT"}
LongTickerList == <<"AAPL", "MSFT", "NVDA", "TSLA", "AMZN", "GOOG">>

TickerListInputs == UNION {[1..n -> TickerNames] : n \in 0..MaxTickers}

\* an argument the caller did not supply carries the default as a filler
FinancialRequests ==
    {r \in [name : {FinancialTool},
            given : SUBSET {"ticker", "analysis_type", "context"},
            arguments : [ticker : TickerInputs, analysis_type : AnalysisTypeInputs,
                         context : ContextInputs]] :
        \A key \in {"ticker", "analysis_type", "context"} \ r.given :
            r.arguments[key] = FinancialDefaults[key]}

MarketRequests ==
    {r \in [name : {MarketTool},
            given : SUBSET {"focus_area", "tickers", "context"},
            arguments : [focus_area : FocusAreaInputs, tickers : TickerListInputs,
                         context : ContextInputs]] :
        \A key \in {"focus_area", "tickers", "context"} \ r.given :
            r.arguments[key] = MarketDefaults[key]}

BaseFinancialRequest ==
    [name |-> FinancialTool, given |-> {"ticker", "analysis_type"},
     arguments |-> [ticker |-> "AAPL", analysis_type |-> "comprehensive", context |-> ""]]

\* more tickers than the loop takes
LongMarketRequest ==
    [name |-> MarketTool, given |-> {"focus_area", "tickers"},
     arguments |-> [focus_area |-> "overall_market", tickers |-> LongTickerList, context |-> ""]]

\* a ticker whose name is a canonical array index, after one that is not
NumericTickerRequest ==
    [name |-> MarketTool, given |-> {"focus_area", "tickers"},
     arguments |-> [focus_area |-> "overall_market", tickers |-> <<"AAPL", "7203">>,
                    context |-> ""]]

\* a ticker named __proto__, after an ordinary one
ProtoTickerRequest ==
    [name |-> MarketTool, given |-> {"focus_area", "tickers"},
     arguments |-> [focus_area |-> "overall_market", tickers |-> <<"AAPL", "__proto__">>,
                    context |-> ""]]

BaseMarketRequest ==
    [name |-> MarketTool, given |-> {"focus_area"},
     arguments |-> [focus_area |-> "overall_market", tickers |-> <<>>, context |-> ""]]

Resolve(reply) ==
    [kind |-> "resolve", reply |-> reply, isError |-> FALSE, message |-> <<>>,
     circular |-> FALSE]
Reject(isError, message) ==
    [kind |-> "reject", reply |-> JUndefined, isError |-> isError, message |-> message,
     circular |-> FALSE]
\* a rejection with an Error that has an own property referring to the Error itself
RejectCircular(message) == [Reject(TRUE, message) EXCEPT !.circular = TRUE]
NeverAnswers ==
    [kind |-> "never", reply |-> JUndefined, isError |-> FALSE, message |-> <<>>,
     circular |-> FALSE]

\* an object literal: slots holding undefined are left out
MkObj(slots) == JObj(SelectSeq(slots, LAMBDA p : p[2] # JUndefined))

Texts == {"A", "B"}

CanonicalReply(t) == JObj(<< <<"content", JObj(<< <<"type", JStr("text")>>, <<"text", JStr(t)>> >>)>> >>)
KindTaggedReply(t) == JObj(<< <<"content", JObj(<< <<"kind", JStr("text")>>, <<"text", JStr(t)>> >>)>> >>)
FlattenedReply(t) == JObj(<< <<"text", JStr(t)>> >>)
DoubleWrappedReply(t) == JObj(<< <<"result", JObj(<< <<"content", JObj(<< <<"text", JStr(t)>> >>)>> >>)>> >>)
ContentStringReply(t) == JObj(<< <<"content", JStr(t)>> >>)
BareStringReply(t) == JStr(t)

\* values of a content field: leaves and tagged text objects
InnerObjects ==
    {MkObj(<< <<tag[1], tag[2]>>, <<"text", x>> >>) :
        tag \in {<<"type", JUndefined>>, <<"type", JStr("text")>>, <<"type", JStr("image")>>,
                 <<"kind", JStr("text")>>},
        x \in {JUndefined, JStr("A"), JStr(""), JNum("5")}}

ContentSlot ==
    {JUndefined, JStr("A"), JStr(""), JNum("5"), JNull} \cup InnerObjects

TextSlot == {JUndefined, JStr("B"), JStr(""), JNum("5")}

ResultSlot ==
    {JUndefined, JStr("B"), JObj(<< <<"content", JStr("B")>> >>)}
    \cup {JObj(<< <<"content", MkObj(<< <<"text", x>> >>)>> >>) :
            x \in {JUndefined, JStr("B"), JStr(""), JNum("5")}}

ExtraSlot ==
    {<<"message", JUndefined>>, <<"message", JStr("A")>>, <<"message", JStr("")>>,
     <<"role", JStr("assistant")>>, <<"usage", JNum("5")>>,
     <<"data", JObj(<< <<"message", JStr("A")>> >>)>>,
     <<"data", JObj(<< <<"items", JObj(<< <<"text", JStr("A")>> >>)>> >>)>>}

\* reply objects: the four slots in either key order
ReplyObjects ==
    {MkObj(IF extraFirst THEN << extra, <<"content", c>>, <<"text", t>>, <<"result", r>> >>
                         ELSE << <<"result", r>>, <<"text", t>>, <<"content", c>>, extra >>) :
        c \in ContentSlot, t \in TextSlot, r \in ResultSlot, extra \in ExtraSlot,
        extraFirst \in BOOLEAN}

DocumentedShapes(t) ==
    {CanonicalReply(t), KindTaggedReply(t), FlattenedReply(t), DoubleWrappedReply(t),
     ContentStringReply(t), BareStringReply(t)}

\* replies whose text field holds an object or an array
StructuredTextReplies ==
    {JObj(<< <<"content", JObj(<< <<"type", JStr("text")>>, <<"text", x>> >>)>> >>) :
        x \in {JObj(<<>>), JObj(<< <<"text", JStr("A")>> >>), JArr(<<JStr("A")>>)}}
    \cup {JObj(<< <<"result", JObj(<< <<"content", JObj(<< <<"text", x>> >>)>> >>)>>,
                  <<"message", JStr("B")>> >>) :
            x \in {JObj(<< <<"value", JStr("A")>> >>), JArr(<<JStr("A"), JStr("B")>>)}}

\* replies with keys that are canonical array indices, written after other keys
IndexKeyReplies ==
    {JObj(<< <<"b", JStr("A")>>, <<"1", JStr("B")>> >>),
     JObj(<< <<"z", JObj(<< <<"text", JStr("A")>> >>)>>,
             <<"10", JObj(<< <<"text", JStr("A")>> >>)>>,
             <<"2", JObj(<< <<"text", JStr("B")>> >>)>> >>),
     JObj(<< <<"b", JStr("A")>>, <<"01", JStr("B")>> >>)}

\* replies with an own key named hasOwnProperty
HasOwnPropertyReplies ==
    {JObj(<< <<"hasOwnProperty", JStr("A")>> >>),
     JObj(<< <<"hasOwnProperty", JObj(<< <<"text", JStr("A")>> >>)>> >>),
     JObj(<< <<"a", JObj(<< <<"hasOwnProperty", JNum("5")>>, <<"zz", JStr("A")>> >>)>> >>),
     JObj(<< <<"hasOwnProperty", JStr("B")>>, <<"text", JStr("A")>> >>)}

Replies ==
    ReplyObjects \cup UNION {DocumentedShapes(t) : t \in Texts}
                 \cup StructuredTextReplies \cup IndexKeyReplies
                 \cup HasOwnPropertyReplies
                 \cup {JStr(""), JNum("5"), JNull, JUndefined}

ErrorMessages ==
    {<<Signature, " (reading 'parse')">>, <<"TypeError: ", Signature>>,
     <<"Request timed out">>, <<>>}

Rejections ==
    {Reject(e, m) : e \in BOOLEAN, m \in ErrorMessages}
    \cup {RejectCircular(m) : m \in {<<Signature, " (reading 'parse')">>, <<"Request timed out">>}}

SmallPlans ==
    {Resolve(CanonicalReply("A")), Resolve(JStr("")), Resolve(JObj(<<>>)),
     Reject(TRUE, <<Signature, " (reading 'parse')">>), Reject(TRUE, <<"Request timed out">>),
     NeverAnswers}

SdkMethods == {"createMessage", "request"}

Invocations == {1}

CliNotStarted == [pc |-> "off"]

\* the client answers, or the request fails
RequestPlans == {Resolve(CanonicalReply("A")), Reject(TRUE, <<"Request timed out">>)}

\* many requests, two client behaviours
RequestScenario ==
    /\ server = SdkMethods
    /\ request \in [Invocations -> FinancialRequests \cup MarketRequests]
    /\ client \in [Invocations -> RequestPlans]

\* every set of methods the server may expose
ServerScenario ==
    /\ server \in SUBSET Methods
    /\ request \in [Invocations -> {BaseFinancialRequest, BaseMarketRequest}]
    /\ client \in [Invocations -> SmallPlans]

\* a ticker list longer than the loop's limit
LongListScenario ==
    /\ server = SdkMethods
    /\ request \in [Invocations -> {LongMarketRequest}]
    /\ client \in [Invocations -> {Resolve(CanonicalReply("A"))}]

\* ticker names that are array indices, or name the prototype
KeyOrderScenario ==
    /\ server = SdkMethods
    /\ request \in [Invocations -> {NumericTickerRequest, ProtoTickerRequest}]
    /\ client \in [Invocations -> {Resolve(CanonicalReply("A"))}]

\* many replies and rejections, one request
ReplyScenario ==
    /\ server = SdkMethods
    /\ request \in [Invocations -> {BaseMarketRequest}]
    /\ client \in [Invocations -> {Resolve(r) : r \in Replies} \cup Rejections]

\* an invocation before its call is handled
Fresh ==
    /\ pc = [i \in Invocations |-> "received"]
    /\ rs = [i \in Invocations |-> "idle"]
    /\ pending = [i \in Invocations |-> {}]
    /\ settled = [i \in Invocations |-> <<>>]
    /\ tickerIdx = [i \in Invocations |-> 0]
    /\ tickerData = [i \in Invocations |-> <<>>]
    /\ fetchLog = [i \in Invocations |-> <<>>]
    /\ fetchStatus = [i \in Invocations |-> <<>>]
    /\ logged = [i \in Invocations |-> <<>>]
    /\ params = [i \in Invocations |-> NoParams]
    /\ calls = [i \in Invocations |-> <<>>]
    /\ response = [i \in Invocations |-> JUndefined]
    /\ analysis = [i \in Invocations |-> NoResult]
    /\ outcome = [i \in Invocations |-> NoOutcome]
    /\ cli = CliNotStarted

Init == (RequestScenario \/ ServerScenario \/ ReplyScenario \/ KeyOrderScenario) /\ Fresh

Next ==
    \/ \E i \in Inv : CallFinancial(i)
    \/ \E i \in Inv : FetchFulfilled(i)
    \/ \E i \in Inv : FetchRejected(i)
    \/ \E i \in Inv : OrphanSettles(i)
    \/ \E i \in Inv : FinancialBuild(i)
    \/ \E i \in Inv : CallMarket(i)
    \/ \E i \in Inv : TickerIteration(i)
    \/ \E i \in Inv : TickerFulfilled(i)
    \/ \E i \in Inv : TickerRejected(i)
    \/ \E i \in Inv : MarketBuild(i)
    \/ \E i \in Inv : GeneralFulfilled(i)
    \/ \E i \in Inv : GeneralRejected(i)
    \/ \E i \in Inv : Dispatch(i)
    \/ \E i \in Inv : TransportResolves(i)
    \/ \E i \in Inv : TransportRejects(i)
    \/ \E i \in Inv : Normalize(i)
    \/ \E i \in Inv : HandlerReturns(i)
    \/ \E i \in Inv : HandlerThrows(i)

Spec == Init /\ [][Next]_vars

-----------------------------------------------------------------------------
(* ai_market_insights called with more tickers than the loop takes; every   *)
(* get of every ticker may be fulfilled or rejected.                        *)

InitLongList == LongListScenario /\ Fresh

NextLongList ==
    \/ \E i \in Inv : CallMarket(i)
    \/ \E i \in Inv : TickerIteration(i)
    \/ \E i \in Inv : FetchFulfilled(i)
    \/ \E i \in Inv : TickerFulfilled(i)
    \/ \E i \in Inv : TickerRejected(i)
    \/ \E i \in Inv : OrphanSettles(i)
    \/ \E i \in Inv : MarketBuild(i)
    \/ \E i \in Inv : Dispatch(i)
    \/ \E i \in Inv : TransportResolves(i)
    \/ \E i \in Inv : Normalize(i)
    \/ \E i \in Inv : HandlerReturns(i)

SpecLongList == InitLongList /\ [][NextLongList]_vars

-----------------------------------------------------------------------------
(* Two tool calls in progress at once, interleaved at their awaits.         *)

Concurrent == {1, 2}

FirstRequests ==
    {BaseFinancialRequest,
     [name |-> MarketTool, given |-> {"tickers", "context"},
      arguments |-> [focus_area |-> "overall_market", tickers |-> <<"AAPL">>, context |-> "ctx"]]}

SecondRequests ==
    {[name |-> FinancialTool, given |-> {"ticker", "analysis_type", "context"},
      arguments |-> [ticker |-> "MSFT", analysis_type |-> "risks", context |-> "ctx"]],
     [name |-> MarketTool, given |-> {"focus_area"},
      arguments |-> [focus_area |-> "crypto", tickers |-> <<>>, context |-> ""]]}

FirstPlans == {Resolve(CanonicalReply("A")), Reject(TRUE, <<"Request timed out">>)}
SecondPlans == {Resolve(FlattenedReply("B")), Reject(TRUE, <<Signature, " (reading 'parse')">>)}

InitConcurrent ==
    /\ server = SdkMethods
    /\ request \in {[i \in Concurrent |-> IF i = 1 THEN a ELSE b] :
                        a \in FirstRequests, b \in SecondRequests}
    /\ client \in {[i \in Concurrent |-> IF i = 1 THEN a ELSE b] :
                       a \in FirstPlans, b \in SecondPlans}
    /\ pc = [i \in Concurrent |-> "received"]
    /\ rs = [i \in Concurrent |-> "idle"]
    /\ pending = [i \in Concurrent |-> {}]
    /\ settled = [i \in Concurrent |-> <<>>]
    /\ tickerIdx = [i \in Concurrent |-> 0]
    /\ tickerData = [i \in Concurrent |-> <<>>]
    /\ fetchLog = [i \in Concurrent |-> <<>>]
    /\ fetchStatus = [i \in Concurrent |-> <<>>]
    /\ logged = [i \in Concurrent |-> <<>>]
    /\ params = [i \in Concurrent |-> NoParams]
    /\ calls = [i \in Concurrent |-> <<>>]
    /\ response = [i \in Concurrent |-> JUndefined]
    /\ analysis = [i \in Concurrent |-> NoResult]
    /\ outcome = [i \in Concurrent |-> NoOutcome]
    /\ cli = CliNotStarted

SpecConcurrent == InitConcurrent /\ [][Next]_vars

-----------------------------------------------------------------------------
(* requestSampling on its own: called with messages and, or without, a      *)
(* systemPrompt and modelPreferences.                                       *)

ResolverCall == "requestSampling"

MessagesInputs == {<<>>, <<UserMessage(<<Lit("Summarise the market.")>>)>>}
SystemPromptInputs == {<<Lit("You are terse.")>>}
PreferencesInputs ==
    {FinancialPreferences, MarketPreferences,
     [hints |-> <<>>, intelligencePriority |-> 0, speedPriority |-> 100, costPriority |-> 50]}

\* an argument the caller left out carries the filler (undefined); a systemPrompt
\* the caller supplied may be the empty string, the text of no pieces
ResolverCalls ==
    {r \in [name : {ResolverCall},
            given : SUBSET {"systemPrompt", "modelPreferences"},
            arguments : [messages : MessagesInputs,
                         systemPrompt : SystemPromptInputs \cup {<<>>},
                         modelPreferences : PreferencesInputs \cup {NoPreferences}]] :
        /\ "systemPrompt" \notin r.given => r.arguments.systemPrompt = <<>>
        /\ "modelPreferences" \in r.given <=> r.arguments.modelPreferences # NoPreferences}

\* requestSampling is entered: samplingParams is built from the arguments
EnterRequestSampling(i) ==
    /\ pc[i] = "calling"
    /\ request[i].name = ResolverCall
    /\ params' = [params EXCEPT ![i] =
                    SamplingParams(request[i].arguments.messages,
                                   request[i].arguments.systemPrompt,
                                   request[i].arguments.modelPreferences)]
    /\ pc' = [pc EXCEPT ![i] = "awaiting"]
    /\ rs' = [rs EXCEPT ![i] = "DISPATCHING"]
    /\ UNCHANGED <<server, request, client, cli, pending, settled, tickerIdx, tickerData,
                   fetchLog, fetchStatus, logged, calls, response, analysis, outcome>>

InitResolver ==
    /\ server \in SUBSET Methods
    /\ request \in [Invocations -> ResolverCalls]
    /\ client \in [Invocations -> SmallPlans]
    /\ pc = [i \in Invocations |-> "calling"]
    /\ rs = [i \in Invocations |-> "idle"]
    /\ pending = [i \in Invocations |-> {}]
    /\ settled = [i \in Invocations |-> <<>>]
    /\ tickerIdx = [i \in Invocations |-> 0]
    /\ tickerData = [i \in Invocations |-> <<>>]
    /\ fetchLog = [i \in Invocations |-> <<>>]
    /\ fetchStatus = [i \in Invocations |-> <<>>]
    /\ logged = [i \in Invocations |-> <<>>]
    /\ params = [i \in Invocations |-> NoParams]
    /\ calls = [i \in Invocations |-> <<>>]
    /\ response = [i \in Invocations |-> JUndefined]
    /\ analysis = [i \in Invocations |-> NoResult]
    /\ outcome = [i \in Invocations |-> NoOutcome]
    /\ cli = CliNotStarted

NextResolver ==
    \/ \E i \in Inv : EnterRequestSampling(i)
    \/ \E i \in Inv : Dispatch(i)
    \/ \E i \in Inv : TransportResolves(i)
    \/ \E i \in Inv : TransportRejects(i)
    \/ \E i \in Inv : Normalize(i)

SpecResolver == InitResolver /\ [][NextResolver]_vars

-----------------------------------------------------------------------------
(* The command line launcher (bin/cli.js).  A string the launcher tests or  *)
(* trims is a sequence of chunks, each a run of blanks " " or a word; the   *)
(* empty string is << >>.  A string the launcher lower-cases is a string.   *)

Chunks(token) == IF token = "" THEN <<>> ELSE <<token>>

RECURSIVE TrimStart(_)
TrimStart(s) == IF s # <<>> /\ Head(s) = " " THEN TrimStart(Tail(s)) ELSE s

RECURSIVE TrimEnd(_)
TrimEnd(s) ==
    IF s # <<>> /\ s[Len(s)] = " " THEN TrimEnd(SubSeq(s, 1, Len(s) - 1)) ELSE s

\* answer.trim()
Trim(s) == TrimEnd(TrimStart(s))

\* the lower-case form of one character (the letters A to Z; any other character
\* typed here is its own lower-case form)
LowerChar(c) ==
    CASE c = "A" -> "a" [] c = "B" -> "b" [] c = "C" -> "c" [] c = "D" -> "d"
      [] c = "E" -> "e" [] c = "F" -> "f" [] c = "G" -> "g" [] c = "H" -> "h"
      [] c = "I" -> "i" [] c = "J" -> "j" [] c = "K" -> "k" [] c = "L" -> "l"
      [] c = "M" -> "m" [] c = "N" -> "n" [] c = "O" -> "o" [] c = "P" -> "p"
      [] c = "Q" -> "q" [] c = "R" -> "r" [] c = "S" -> "s" [] c = "T" -> "t"
      [] c = "U" -> "u" [] c = "V" -> "v" [] c = "W" -> "w" [] c = "X" -> "x"
      [] c = "Y" -> "y" [] c = "Z" -> "z" [] OTHER -> c

RECURSIVE ToLowerCase(_)
\* s.toLowerCase(), character by character
ToLowerCase(s) == IF s = "" THEN "" ELSE LowerChar(Head(s)) \o ToLowerCase(Tail(s))

RECURSIVE Join(_)
\* the string whose chunks are s
Join(s) == IF s = <<>> THEN "" ELSE Head(s) \o Join(Tail(s))

DefaultBaseUrl == "https://api.financialdatasets.ai"

Includes(args, flag) == \E n \in 1..Len(args) : args[n] = flag

\* the flags at the start of the argument loop
ParsedNothing ==
    [apiKey |-> <<>>, baseUrl |-> DefaultBaseUrl, debug |-> FALSE, nonInteractive |-> FALSE,
     help |-> FALSE]

RECURSIVE ParseArgs(_, _, _)
\* for (let i = 0; i < args.length; i++) { ... } from position n (1-based)
ParseArgs(args, n, acc) ==
    IF n > Len(args) THEN acc
    ELSE LET arg == args[n]
         IN  IF arg \in {"--api-key", "-k"} /\ n + 1 <= Len(args)
             THEN ParseArgs(args, n + 2, [acc EXCEPT !.apiKey = Chunks(args[n + 1])])
             ELSE IF arg \in {"--base-url", "-u"} /\ n + 1 <= Len(args)
             THEN ParseArgs(args, n + 2, [acc EXCEPT !.baseUrl = args[n + 1]])
             ELSE IF arg \in {"--debug", "-d"}
             THEN ParseArgs(args, n + 1, [acc EXCEPT !.debug = TRUE])
             ELSE IF arg \in {"--non-interactive", "-n"}
             THEN ParseArgs(args, n + 1, [acc EXCEPT !.nonInteractive = TRUE])
             ELSE IF arg \in {"--help", "-h"}
             THEN [acc EXCEPT !.help = TRUE]
             ELSE ParseArgs(args, n + 1, acc)

\* const isMcpContext = !process.stdin.isTTY || npm_execpath?.includes('npx') || ...
IsMcpContext(env, args) ==
    \/ ~env.stdinIsTTY
    \/ env.npx
    \/ env.claudeApiKey
    \/ Includes(args, "--non-interactive")
    \/ Includes(args, "-n")

KeyPrompt == "Please enter your Financial Datasets API key: "
SavePrompt == "Would you like to save this API key for future use? (y/n): "

\* the launcher before its first statement: argv, the stored key, the environment
CliStart(args, stored, env) ==
    [pc |-> "start", args |-> args, storedApiKey |-> stored, env |-> env,
     apiKey |-> <<>>, baseUrl |-> DefaultBaseUrl, debug |-> FALSE, nonInteractive |-> FALSE,
     prompts |-> <<>>, saved |-> <<>>, exitCode |-> -1,
     started |-> [mode |-> "none", apiKey |-> <<>>, baseUrl |-> ""],
     child |-> "none", output |-> "", input |-> "open"]

\* the top-level statements of cli.js up to the first prompt or startServer
CliMain ==
    /\ cli.pc = "start"
    /\ LET parsed == ParseArgs(cli.args, 1, ParsedNothing)
           nonInteractive == parsed.nonInteractive \/ IsMcpContext(cli.env, cli.args)
           apiKey == IF parsed.apiKey = <<>> /\ cli.storedApiKey # <<>>
                     THEN cli.storedApiKey ELSE parsed.apiKey
       IN  cli' =
             IF parsed.help
             THEN [cli EXCEPT !.pc = "exited", !.exitCode = 0,
                              !.apiKey = parsed.apiKey, !.baseUrl = parsed.baseUrl,
                              !.debug = parsed.debug,
                              !.nonInteractive = IsMcpContext(cli.env, cli.args)
                                                    \/ parsed.nonInteractive]
             ELSE LET c == [cli EXCEPT !.apiKey = apiKey, !.baseUrl = parsed.baseUrl,
                                       !.debug = parsed.debug,
                                       !.nonInteractive = nonInteractive]
                  IN  IF apiKey = <<>>
                      THEN IF nonInteractive
                           THEN [c EXCEPT !.pc = "exited", !.exitCode = 1]
                           ELSE [c EXCEPT !.pc = "askKey", !.prompts = Append(@, KeyPrompt)]
                      ELSE [c EXCEPT !.pc = "startServer"]
    /\ UNCHANGED <<server, request, client, pc, rs, pending, settled, tickerIdx, tickerData,
                   fetchLog, fetchStatus, logged, params, calls, response, analysis, outcome>>

KeyAnswers == {<<>>, <<" ">>, <<"K2">>, <<" ", "K2", " ">>}
SaveAnswers == {"y", "YES", "yEs", "Y", "n", "N", "yes please", ""}

\* the callback of rl.question('Please enter your ... API key: ')
CliKeyAnswered ==
    /\ cli.pc = "askKey"
    /\ cli.input = "open"
    /\ \E answer \in KeyAnswers :
          cli' = IF Trim(answer) = <<>>
                 THEN [cli EXCEPT !.apiKey = Trim(answer), !.pc = "exited", !.exitCode = 1]
                 ELSE [cli EXCEPT !.apiKey = Trim(answer), !.pc = "askSave",
                                  !.prompts = Append(@, SavePrompt)]
    /\ UNCHANGED <<server, request, client, pc, rs, pending, settled, tickerIdx, tickerData,
                   fetchLog, fetchStatus, logged, params, calls, response, analysis, outcome>>

\* end of input (Ctrl-D) on process.stdin.  At a prompt the callback of question
\* is never called and nothing else is waited for: the launcher ends with status
\* 0, nothing saved, no server started.  Beside a spawned server the readline
\* interface closes and no further command arrives; the launcher stays for as
\* long as the child runs
CliEndOfInput ==
    /\ \/ cli.pc \in {"askKey", "askSave"}
       \/ cli.pc = "running" /\ cli.started.mode = "spawn" /\ ~cli.nonInteractive
    /\ cli.input = "open"
    /\ cli' = IF cli.pc = "running" /\ cli.child = "alive"
              THEN [cli EXCEPT !.input = "closed"]
              ELSE [cli EXCEPT !.input = "closed", !.pc = "exited", !.exitCode = 0]
    /\ UNCHANGED <<server, request, client, pc, rs, pending, settled, tickerIdx, tickerData,
                   fetchLog, fetchStatus, logged, params, calls, response, analysis, outcome>>

\* the callback of saveRl.question('Would you like to save ...'); the write may fail
CliSaveAnswered ==
    /\ cli.pc = "askSave"
    /\ cli.input = "open"
    /\ \E saveAnswer \in SaveAnswers : \E written \in BOOLEAN :
          cli' = [cli EXCEPT !.pc = "startServer",
                             !.saved = IF ToLowerCase(saveAnswer) \in {"y", "yes"} /\ written
                                       THEN cli.apiKey ELSE @]
    /\ UNCHANGED <<server, request, client, pc, rs, pending, settled, tickerIdx, tickerData,
                   fetchLog, fetchStatus, logged, params, calls, response, analysis, outcome>>

\* startServer / startServerWithPath: the server file is looked up; in an MCP context
\* the environment is set and the import of the server module begins, otherwise the
\* server is spawned with the key and the handlers of the child are registered
CliStartServer ==
    /\ cli.pc = "startServer"
    /\ \E found \in BOOLEAN :
          cli' = IF ~found
                 THEN [cli EXCEPT !.pc = "exited", !.exitCode = 1]
                 ELSE IF IsMcpContext(cli.env, cli.args)
                 THEN [cli EXCEPT !.pc = "importing",
                                  !.started = [mode |-> "import", apiKey |-> cli.apiKey,
                                               baseUrl |-> cli.baseUrl]]
                 ELSE [cli EXCEPT !.pc = "running", !.child = "alive",
                                  !.started = [mode |-> "spawn", apiKey |-> cli.apiKey,
                                               baseUrl |-> cli.baseUrl]]
    /\ UNCHANGED <<server, request, client, pc, rs, pending, settled, tickerIdx, tickerData,
                   fetchLog, fetchStatus, logged, params, calls, response, analysis, outcome>>

\* import(serverPath) settles: the server runs inside the launcher, or the catch
\* callback ends the launcher with process.exit(1)
CliImportSettles ==
    /\ cli.pc = "importing"
    /\ \E imported \in BOOLEAN :
          cli' = IF imported
                 THEN [cli EXCEPT !.pc = "running"]
                 ELSE [cli EXCEPT !.pc = "exited", !.exitCode = 1]
    /\ UNCHANGED <<server, request, client, pc, rs, pending, settled, tickerIdx, tickerData,
                   fetchLog, fetchStatus, logged, params, calls, response, analysis, outcome>>

\* serverProcess.on('error'): process.exit(1).  output holds the first line the
\* latest handler registered beside the spawned server has written to the console
CliSpawnError ==
    /\ cli.pc = "running"
    /\ cli.child = "alive"
    /\ cli' = [cli EXCEPT !.pc = "exited", !.exitCode = 1, !.child = "failed",
                          !.output = "Failed to start server:"]
    /\ UNCHANGED <<server, request, client, pc, rs, pending, settled, tickerIdx, tickerData,
                   fetchLog, fetchStatus, logged, params, calls, response, analysis, outcome>>

\* how the spawned server may end: with an exit code, or killed by a signal (the
\* code handed to the 'exit' handler is then null)
ChildEndings ==
    {[signal |-> FALSE, code |-> 0], [signal |-> FALSE, code |-> 1],
     [signal |-> FALSE, code |-> 3], [signal |-> TRUE, code |-> 0]}

\* serverProcess.on('exit', code): if (code !== 0) process.exit(code);
\* process.exit(null) ends the launcher with status 0.  After code 0 the launcher
\* goes on while it reads commands, and ends with status 0 when it reads none
\* (non-interactive, or the input has ended)
CliServerExit ==
    /\ cli.pc = "running"
    /\ cli.child = "alive"
    /\ \E ending \in ChildEndings :
          cli' = IF ending.signal
                 THEN [cli EXCEPT !.pc = "exited", !.exitCode = 0, !.child = "signalled",
                                  !.output = "Server exited with code null"]
                 ELSE IF ending.code # 0
                 THEN [cli EXCEPT !.pc = "exited", !.exitCode = ending.code,
                                  !.child = "exited",
                                  !.output = "Server exited with code " \o ToString(ending.code)]
                 ELSE IF cli.nonInteractive \/ cli.input = "closed"
                 THEN [cli EXCEPT !.pc = "exited", !.exitCode = 0, !.child = "exited"]
                 ELSE [cli EXCEPT !.child = "exited"]
    /\ UNCHANGED <<server, request, client, pc, rs, pending, settled, tickerIdx, tickerData,
                   fetchLog, fetchStatus, logged, params, calls, response, analysis, outcome>>

\* process.on('SIGINT'), registered once the server is spawned: a line is
\* printed, the child is sent SIGINT and process.exit(0)
CliSigint ==
    /\ cli.pc = "running"
    /\ cli.started.mode = "spawn"
    /\ cli' = [cli EXCEPT !.pc = "exited", !.exitCode = 0,
                          !.output = "\nShutting down server...",
                          !.child = IF @ = "alive" THEN "signalled" ELSE @]
    /\ UNCHANGED <<server, request, client, pc, rs, pending, settled, tickerIdx, tickerData,
                   fetchLog, fetchStatus, logged, params, calls, response, analysis, outcome>>

CommandInputs ==
    {<<"exit">>, <<" ", "EXIT", " ">>, <<"Exit">>, <<"help">>, <<"log">>, <<"Status">>,
     <<"exit", " ", "now">>, <<>>}

\* rl.on('line', input), registered unless nonInteractive: the command is
\* input.trim().toLowerCase(); exit prints and ends the launcher with status 0,
\* the other commands print, output holding what the command prints first
\* (reading the log file may throw; serverProcess.killed is false until kill is
\* called)
CliCommand ==
    /\ cli.pc = "running"
    /\ cli.started.mode = "spawn"
    /\ ~cli.nonInteractive
    /\ cli.input = "open"
    /\ \E input \in CommandInputs : \E readable \in BOOLEAN :
          LET command == ToLowerCase(Join(Trim(input)))
          IN  cli' = CASE command = "exit" ->
                            [cli EXCEPT !.pc = "exited", !.exitCode = 0,
                                        !.output = "Shutting down server...",
                                        !.child = IF @ = "alive" THEN "signalled" ELSE @]
                       [] command = "help" -> [cli EXCEPT !.output = "\nCommands:"]
                       [] command = "log" ->
                            [cli EXCEPT !.output = IF readable THEN "\nLast 10 log entries:"
                                                  ELSE "Error reading log file:"]
                       [] command = "status" -> [cli EXCEPT !.output = "Server is running."]
                       [] OTHER ->
                            [cli EXCEPT !.output =
                                "Unknown command. Type \"help\" for available commands."]
    /\ UNCHANGED <<server, request, client, pc, rs, pending, settled, tickerIdx, tickerData,
                   fetchLog, fetchStatus, logged, params, calls, response, analysis, outcome>>

ArgvInputs ==
    {<<>>, <<"--api-key", "K1">>, <<"-k", "K1", "--debug">>, <<"-k">>, <<"--api-key", "">>,
     <<"-n">>, <<"--non-interactive", "-k", "K1">>, <<"--help">>, <<"-u", "http://localhost">>,
     <<"-d", "--base-url", "http://localhost", "--api-key", "K1">>}

StoredKeys == {<<>>, <<"K0">>}

Environments == [stdinIsTTY : BOOLEAN, npx : BOOLEAN, claudeApiKey : BOOLEAN]

InitCli ==
    /\ cli \in {CliStart(args, stored, env) :
                    args \in ArgvInputs, stored \in StoredKeys, env \in Environments}
    /\ server = SdkMethods
    /\ request = [i \in Invocations |-> BaseFinancialRequest]
    /\ client = [i \in Invocations |-> NeverAnswers]
    /\ pc = [i \in Invocations |-> "off"]
    /\ rs = [i \in Invocations |-> "idle"]
    /\ pending = [i \in Invocations |-> {}]
    /\ settled = [i \in Invocations |-> <<>>]
    /\ tickerIdx = [i \in Invocations |-> 0]
    /\ tickerData = [i \in Invocations |-> <<>>]
    /\ fetchLog = [i \in Invocations |-> <<>>]
    /\ fetchStatus = [i \in Invocations |-> <<>>]
    /\ logged = [i \in Invocations |-> <<>>]
    /\ params = [i \in Invocations |-> NoParams]
    /\ calls = [i \in Invocations |-> <<>>]
    /\ response = [i \in Invocations |-> JUndefined]
    /\ analysis = [i \in Invocations |-> NoResult]
    /\ outcome = [i \in Invocations |-> NoOutcome]

NextCli ==
    \/ CliMain
    \/ CliKeyAnswered
    \/ CliEndOfInput
    \/ CliSaveAnswered
    \/ CliStartServer
    \/ CliImportSettles
    \/ CliSpawnError
    \/ CliServerExit
    \/ CliSigint
    \/ CliCommand

SpecCli == InitCli /\ [][NextCli]_vars

-----------------------------------------------------------------------------
(* One tool call under fair scheduling: the event loop runs every           *)
(* continuation that is ready, an upstream get settles (the API client has  *)
(* a timeout), and the transport call settles unless the client never       *)
(* answers.                                                                 *)

InitLive ==
    /\ server \in {SdkMethods, {}}
    /\ request \in [Invocations -> FirstRequests \cup {BaseMarketRequest}]
    /\ client \in [Invocations -> SmallPlans \cup {Resolve(r) : r \in StructuredTextReplies}]
    /\ pc = [i \in Invocations |-> "received"]
    /\ rs = [i \in Invocations |-> "idle"]
    /\ pending = [i \in Invocations |-> {}]
    /\ settled = [i \in Invocations |-> <<>>]
    /\ tickerIdx = [i \in Invocations |-> 0]
    /\ tickerData = [i \in Invocations |-> <<>>]
    /\ fetchLog = [i \in Invocations |-> <<>>]
    /\ fetchStatus = [i \in Invocations |-> <<>>]
    /\ logged = [i \in Invocations |-> <<>>]
    /\ params = [i \in Invocations |-> NoParams]
    /\ calls = [i \in Invocations |-> <<>>]
    /\ response = [i \in Invocations |-> JUndefined]
    /\ analysis = [i \in Invocations |-> NoResult]
    /\ outcome = [i \in Invocations |-> NoOutcome]
    /\ cli = CliNotStarted

SpecLive == InitLive /\ [][Next]_vars /\ WF_vars(Next)

-----------------------------------------------------------------------------
(* Properties.                                                              *)

\* the transport call of invocation i resolved and its reply has been normalised
Normalised(i) ==
    client[i].kind = "resolve" /\ Len(calls[i]) = 1 /\ rs[i] \in {"DONE", "FAILED"}

\* requestSampling returned the string t (extracted from the reply)
ReturnedText(i, t) ==
    rs[i] = "DONE" /\ ~analysis[i].thrown /\ analysis[i].value = JStr(t)

\* C1: for each documented reply shape embedding a non-empty text T (canonical with
\* either text tag, flattened, double-wrapped, content as string, bare string),
\* requestSampling returns exactly T.
C1_ExactText ==
    \A i \in Inv : \A t \in Texts :
        (Normalised(i) /\ response[i] \in DocumentedShapes(t)) => ReturnedText(i, t)

C1_Witness ==
    \E i \in Inv : /\ Normalised(i)
                   /\ response[i] = DoubleWrappedReply("B")
                   /\ ReturnedText(i, "B")

\* The documented shapes as the data model lists them, in priority order: the text a
\* shape embeds in a reply, or undefined when the reply does not have that shape.
NonEmptyString(v) == v.k = "string" /\ v.s # ""

ShapeText(reply, n) ==
    LET pick(v) == IF NonEmptyString(v) THEN v ELSE JUndefined
    IN  CASE n = 1 -> IF reply.k = "object" /\ Get(Get(reply, "content"), "type") = JStr("text")
                      THEN pick(Get(Get(reply, "content"), "text")) ELSE JUndefined
          [] n = 2 -> IF reply.k = "object" THEN pick(Get(reply, "text")) ELSE JUndefined
          [] n = 3 -> IF reply.k = "object"
                      THEN pick(Get(Get(Get(reply, "result"), "content"), "text"))
                      ELSE JUndefined
          [] n = 4 -> IF reply.k = "object" THEN pick(Get(reply, "content")) ELSE JUndefined
          [] n = 5 -> pick(reply)

MatchingShapes(reply) == {n \in 1..5 : ShapeText(reply, n) # JUndefined}

FirstMatch(reply) == CHOOSE n \in MatchingShapes(reply) : \A m \in MatchingShapes(reply) : n <= m

\* C2: when a reply matches more than one documented shape, requestSampling
\* returns the text of the highest-priority matching shape, never that of a
\* lower-priority one.
C2_FirstMatchWins ==
    \A i \in Inv :
        (Normalised(i) /\ Cardinality(MatchingShapes(response[i])) >= 2) =>
            /\ rs[i] = "DONE"
            /\ analysis[i].value = ShapeText(response[i], FirstMatch(response[i]))

RECURSIVE HoldsTextField(_)
\* some field named text, content or message, anywhere in the tree, holds a string
HoldsTextField(v) ==
    /\ v.k \in {"object", "array"}
    /\ \E n \in 1..Len(v.f) :
          \/ v.f[n][1] \in {"text", "content", "message"} /\ v.f[n][2].k = "string"
          \/ HoldsTextField(v.f[n][2])

\* C3: for every reply object in whose tree no field named text, content or message
\* holds a string, requestSampling never returns a value: it ends in an error, and
\* the tool call never ends as a normal response.
C3_NoTextFails ==
    \A i \in Inv :
        (Normalised(i) /\ response[i].k = "object" /\ ~HoldsTextField(response[i])) =>
            /\ rs[i] = "FAILED"
            /\ analysis[i].thrown
            /\ outcome[i].kind # "response"

\* C4: whenever requestSampling completes successfully (DONE), the value it returns
\* is a non-empty string.
C4_NonEmptyOnSuccess ==
    \A i \in Inv : rs[i] = "DONE" => NonEmptyString(analysis[i].value)

\* the transport call of invocation i was made and rejected with the value err
RejectedWith(i) ==
    client[i].kind = "reject" /\ Len(calls[i]) = 1 /\ rs[i] \in {"FALLBACK", "FAILED"}

MessageHasSignature(message) ==
    \E n \in 1..Len(message) : message[n] = "Cannot read properties of undefined"

\* C5: whenever the transport call rejects with an Error whose message contains
\* 'Cannot read properties of undefined', requestSampling returns normally, and what
\* it returns is the one fixed fallback text whatever the request and the rest of
\* the error.
C5_FallbackOnSignature ==
    \A i \in Inv :
        (RejectedWith(i) /\ client[i].isError /\ MessageHasSignature(client[i].message)) =>
            /\ rs[i] = "FALLBACK"
            /\ ~analysis[i].thrown
            /\ analysis[i].value = FallbackText

\* the sampling call of invocation i could not be delivered, for a reason other than
\* the known signature
Undelivered(i) ==
    \/ server \cap Methods = {} /\ rs[i] \notin {"idle", "DISPATCHING"}
    \/ RejectedWith(i) /\ ~MessageHasSignature(client[i].message)

\* C6: when the server exposes none of the request-capable methods, or the transport
\* rejects with an error not carrying the signature, requestSampling throws, the
\* tool call ends as a tool error, and no text is returned to the caller.
C6_DeliveryFailureThrows ==
    \A i \in Inv :
        Undelivered(i) =>
            /\ rs[i] = "FAILED"
            /\ analysis[i].thrown
            /\ pc[i] \in {"sampling", "threw"}
            /\ outcome[i].kind # "response"
            /\ pc[i] = "threw" => outcome[i].kind = "error"

C6_Witness ==
    \E i \in Inv : /\ server \cap Methods = {}
                   /\ calls[i] = <<>>
                   /\ pc[i] = "threw"
                   /\ outcome[i].kind = "error"
                   /\ analysis[i].thrown

\* C7: the transport send operation is invoked at most once per invocation, and once
\* it has been invoked the resolver is never back in DISPATCHING.
C7_AtMostOneRoundTrip ==
    \A i \in Inv :
        /\ Len(calls[i]) <= 1
        /\ Len(calls[i]) = 1 => rs[i] # "DISPATCHING"

C7_Witness ==
    \E i \in Inv : /\ Len(calls[i]) = 1
                   /\ client[i].kind = "reject"
                   /\ rs[i] = "FAILED"
                   /\ pc[i] = "threw"

ParamFields == {"messages", "systemPrompt", "modelPreferences", "maxTokens"}

\* C8 as stated: every call handed to the transport carries the method identifier
\* "sampling/createMessage" together with the params, whichever method was selected.
C8_MethodIdAlways ==
    \A i \in Inv : \A n \in 1..Len(calls[i]) :
        /\ calls[i][n].method = "sampling/createMessage"
        /\ "method" \in calls[i][n].fields
        /\ DOMAIN calls[i][n].params = ParamFields

\* C8 amended: every call carries the params made of messages, systemPrompt,
\* modelPreferences and maxTokens; sendRequest and request are handed them inside a
\* request object with the method identifier "sampling/createMessage", while
\* requestSampling and createMessage are handed the params alone.
C8_MethodIdWhenWrapped ==
    \A i \in Inv : \A n \in 1..Len(calls[i]) :
        LET call == calls[i][n]
        IN  /\ DOMAIN call.params = ParamFields
            /\ call.params = params[i]
            /\ call.via \in {"sendRequest", "request"} =>
                  call.method = "sampling/createMessage" /\ call.fields = {"method", "params"}
            /\ call.via \in {"requestSampling", "createMessage"} =>
                  call.method = "" /\ call.fields = ParamFields

C8_Witness ==
    \E i \in Inv : /\ Len(calls[i]) = 1
                   /\ calls[i][1].via = "createMessage"
                   /\ calls[i][1].fields = ParamFields
                   /\ "sendRequest" \in server

\* the context argument as the caller gave it ("" when omitted)
GivenContext(i) == IF "context" \in request[i].given THEN request[i].arguments.context ELSE ""

MessageText(i) == params[i].messages[1].content.text

HasContextSection(text, c) ==
    \E n \in 1..(Len(text) - 1) :
        text[n] = Lit("**Additional Context:** ") /\ text[n + 1] = Arg(c)

\* C9: for both tools, with the context empty or omitted the message text has no
\* "Additional Context" section, and with a non-empty context c it has the section
\* followed by c verbatim.
C9_ContextSection ==
    \A i \in Inv :
        params[i] # NoParams =>
            /\ GivenContext(i) = "" =>
                  \A n \in 1..Len(MessageText(i)) :
                      MessageText(i)[n] # Lit("**Additional Context:** ")
            /\ GivenContext(i) # "" => HasContextSection(MessageText(i), GivenContext(i))

C9_Witness ==
    \E i \in Inv : /\ request[i].name = MarketTool
                   /\ GivenContext(i) = "ctx"
                   /\ Len(calls[i]) = 1
                   /\ HasContextSection(calls[i][1].params.messages[1].content.text, "ctx")

\* the marketData object embedded in the message of ai_market_insights
MarketDataOf(i) ==
    LET text == MessageText(i)
    IN  text[CHOOSE n \in 1..Len(text) : text[n].k = "json"].j

\* the request says that the data of ticker t is unavailable
AnnotatesUnavailable(i, t) ==
    \/ HasKey(Get(MarketDataOf(i), "specificTickers"), t)
    \/ HasKey(MarketDataOf(i), "note")
    \/ HasKey(MarketDataOf(i), "unavailable")

\* C10: in ai_market_insights called with N tickers of which one could not be
\* fetched, the dispatched request's market data holds the other N-1 tickers and
\* the request annotates the failed ticker's data as unavailable.
C10_PartialDataAnnotated ==
    \A i \in Inv :
        (/\ request[i].name = MarketTool
         /\ Len(ArgsOf(i).tickers) >= 2
         /\ Len(calls[i]) = 1
         /\ Len(logged[i]) = 1) =>
            LET tickers == ArgsOf(i).tickers
                failed == logged[i][1]
            IN  /\ \A n \in 1..Len(tickers) :
                      tickers[n] # failed =>
                          HasKey(Get(MarketDataOf(i), "specificTickers"), tickers[n])
                /\ AnnotatesUnavailable(i, failed)

\* a get that is not one of a ticker's two gets in the loop of ai_market_insights was
\* rejected: one of the three gets of ai_financial_analysis, or the ticker list get
NonTickerFetchFailed(i) ==
    \E n \in 1..Len(fetchLog[i]) :
        /\ fetchStatus[i][n].state = "rejected"
        /\ request[i].name = FinancialTool \/ fetchLog[i][n] = TickerListGet

Aborted(i) ==
    /\ pc[i] = "threw"
    /\ outcome[i].kind = "error"
    /\ rs[i] = "idle"
    /\ params[i] = NoParams
    /\ calls[i] = <<>>

\* C11 as stated: a failed upstream fetch that is not a per-ticker one (any of the three
\* of ai_financial_analysis, the ticker list fetch of ai_market_insights) aborts the
\* handler with a tool error and no sampling request is dispatched.
C11_UpstreamFailureAborts ==
    \A i \in Inv : NonTickerFetchFailed(i) => Aborted(i)

\* C11 amended: a failed fetch among the three of ai_financial_analysis aborts the
\* handler with a tool error carrying the upstream message and no sampling request is
\* built or dispatched; a failed ticker list fetch of ai_market_insights does not
\* abort: the request is built with a note in place of the market data.
C11_FinancialFailureAborts ==
    \A i \in Inv :
        NonTickerFetchFailed(i) =>
            IF request[i].name = FinancialTool
            THEN /\ Aborted(i)
                 /\ outcome[i].error =
                       <<"Failed to generate AI financial analysis: ">> \o UpstreamError
            ELSE /\ pc[i] \in {"sampling", "returned", "threw"}
                 /\ rs[i] # "idle"
                 /\ MarketDataOf(i) = JObj(<< <<"note", GeneralNote>> >>)

C11_Witness ==
    \E i \in Inv : /\ request[i].name = FinancialTool
                   /\ Len(fetchStatus[i]) = 3
                   /\ fetchStatus[i][2].state = "rejected"
                   /\ fetchStatus[i][1].state = "fulfilled"
                   /\ Aborted(i)

Priorities(prefs) == {prefs.intelligencePriority, prefs.speedPriority, prefs.costPriority}

\* C12: when requestSampling is called without modelPreferences, the dispatched
\* request's modelPreferences has a non-empty hints list and each of
\* intelligencePriority, speedPriority and costPriority lies in [0,1] (0..100 in
\* hundredths).
C12_DefaultPreferences ==
    \A i \in Inv : \A n \in 1..Len(calls[i]) :
        (request[i].name = "requestSampling" /\ "modelPreferences" \notin request[i].given) =>
            /\ Len(calls[i][n].params.modelPreferences.hints) > 0
            /\ \A p \in Priorities(calls[i][n].params.modelPreferences) : p >= 0 /\ p <= 100

C12_Witness ==
    \E i \in Inv : /\ request[i].name = "requestSampling"
                   /\ request[i].given = {"systemPrompt"}
                   /\ Len(calls[i]) = 1
                   /\ calls[i][1].via = "request"
                   /\ calls[i][1].params.modelPreferences.hints = <<"claude-3-sonnet", "gpt-4", "claude">>
                   /\ calls[i][1].params.modelPreferences.speedPriority = 60

\* the analysis_type argument as the handler sees it
GivenAnalysisType(i) ==
    IF "analysis_type" \in request[i].given THEN request[i].arguments.analysis_type
    ELSE "comprehensive"

\* C13: for every successful ai_financial_analysis invocation the tool response is a
\* single text item made of a header naming the ticker and the analysis type, then
\* the text the resolver returned, verbatim, then a footer listing the data sources
\* and a generation timestamp.
C13_FinancialEnvelope ==
    \A i \in Inv :
        (request[i].name = FinancialTool /\ pc[i] = "returned") =>
            /\ outcome[i].kind = "response"
            /\ Len(outcome[i].content) = 1
            /\ outcome[i].content[1].type = "text"
            /\ LET text == outcome[i].content[1].text
               IN  /\ Len(text) = 8
                   /\ SubSeq(text, 1, 5) =
                         << Lit("AI Financial Analysis for "), Arg(request[i].arguments.ticker),
                            Lit(" ("), Arg(GivenAnalysisType(i)), Lit("):\n\n") >>
                   /\ rs[i] \in {"DONE", "FALLBACK"}
                   /\ analysis[i].value.k = "string"
                   /\ text[6] = [k |-> "value", s |-> analysis[i].value.s, j |-> JUndefined]
                   /\ text[7] = Lit("\n\n---\nData Sources: Company Facts, Financial Metrics, Current Price Data\nAnalysis Generated: ")
                   /\ text[8].k = "time"

C13_Witness ==
    \E i \in Inv : /\ request[i].name = FinancialTool
                   /\ pc[i] = "returned"
                   /\ response[i] = CanonicalReply("A")
                   /\ request[i].arguments.analysis_type = "risks"
                   /\ Len(outcome[i].content) = 1
                   /\ outcome[i].content[1].text[6].s = "A"
                   /\ outcome[i].content[1].text[4] = Arg("risks")

\* the sampling call of invocation i was made and the transport never settles it
NeverSettled(i) == client[i].kind = "never" /\ Len(calls[i]) = 1

\* C14: requestSampling has no timeout or cancellation: when the transport call
\* neither resolves nor rejects, the invocation is in AWAITING in every later state,
\* never DONE or FAILED, and its tool call has produced neither a response nor an
\* error.
C14_NoTimeout ==
    \A i \in Inv :
        NeverSettled(i) =>
            /\ rs[i] = "AWAITING"
            /\ pc[i] = "sampling"
            /\ analysis[i] = NoResult
            /\ outcome[i] = NoOutcome

C14_Witness ==
    \E i \in Inv : /\ NeverSettled(i)
                   /\ rs[i] = "AWAITING"
                   /\ calls[i][1].via = "createMessage"
                   /\ request[i].name = MarketTool
                   /\ ~ENABLED (TransportResolves(i) \/ TransportRejects(i) \/ Normalize(i)
                                \/ HandlerReturns(i) \/ HandlerThrows(i) \/ Dispatch(i))

\* everything invocation i owns
OwnState(i) ==
    <<request[i], client[i], pc[i], rs[i], pending[i], settled[i], tickerIdx[i],
      tickerData[i], fetchLog[i], fetchStatus[i], logged[i], params[i], calls[i],
      response[i], analysis[i], outcome[i]>>

\* the data of invocation i's own fulfilled gets for its own ticker t
OwnFetched(i, t) ==
    /\ \A n \in 1..Len(fetchLog[i]) : fetchLog[i][n][2] = t
    /\ \A n \in 1..Len(fetchLog[i]) : fetchStatus[i][n].state = "fulfilled"

\* the request as built from invocation i's own arguments and own fetched data
OwnRequest(i) ==
    IF request[i].name = FinancialTool
    THEN LET t == request[i].arguments.ticker
         IN  SamplingParams(
                 FinancialMessages(ArgsOf(i), CompanyFacts(t), MetricsSnapshot(t), PriceSnapshot(t)),
                 FinancialSystemPrompt(ArgsOf(i)), FinancialPreferences)
    ELSE LET marketData ==
                 IF Len(ArgsOf(i).tickers) > 0
                 THEN JObj(<< <<"specificTickers", JObj(tickerData[i])>> >>)
                 ELSE IF fetchStatus[i][1].state = "rejected"
                 THEN JObj(<< <<"note", GeneralNote>> >>)
                 ELSE JObj(<< <<"availableTickers", fetchStatus[i][1].data>>,
                              <<"sampleSize", JNum(ToString(Len(fetchStatus[i][1].data.f)))>> >>)
         IN  SamplingParams(MarketMessages(ArgsOf(i), marketData), MarketSystemPrompt(ArgsOf(i)),
                            MarketPreferences)

\* the result as computed from invocation i's own reply
OwnResult(i) ==
    IF client[i].kind = "resolve"
    THEN OuterCatch(NormalizeReply(client[i].reply))
    ELSE OuterCatch(OnRequestError(client[i]))

OwnOutcome(i) ==
    IF OwnResult(i).thrown
    THEN HandlerCatch(request[i].name, OwnResult(i).error)
    ELSE IF request[i].name = FinancialTool
    THEN ToolResponse(FinancialResponseText(ArgsOf(i), OwnResult(i).value))
    ELSE ToolResponse(MarketResponseText(ArgsOf(i), OwnResult(i).value))

Isolated(i) ==
    /\ params[i] # NoParams => params[i] = OwnRequest(i)
    /\ \A n \in 1..Len(calls[i]) : calls[i][n].params = OwnRequest(i)
    /\ request[i].name = FinancialTool /\ params[i] # NoParams =>
          OwnFetched(i, request[i].arguments.ticker)
    /\ \A n \in 1..Len(tickerData[i]) :
          /\ \E k \in 1..Len(ArgsOf(i).tickers) : ArgsOf(i).tickers[k] = tickerData[i][n][1]
          /\ Get(tickerData[i][n][2], "facts") = CompanyFacts(tickerData[i][n][1])
    /\ rs[i] \in {"DONE", "FALLBACK", "FAILED"} => analysis[i] = OwnResult(i)
    /\ pc[i] = "returned" \/ (pc[i] = "threw" /\ rs[i] = "FAILED") => outcome[i] = OwnOutcome(i)

\* C15: with two tool invocations interleaved at their awaits (upstream gets and the
\* sampling call), every step changes the state of one invocation only, and each
\* invocation's request and result are those that follow from its own arguments,
\* its own fetched data and its own reply, in every interleaving.
C15_Isolation ==
    /\ [](\A i \in Inv : Isolated(i))
    /\ [][\E j \in Inv : \A i \in Inv \ {j} : OwnState(i)' = OwnState(i)]_vars

C15_Witness ==
    /\ Inv = {1, 2}
    /\ request[1].name = FinancialTool /\ request[2].name = FinancialTool
    /\ Len(calls[2]) = 1 /\ rs[2] = "AWAITING"
    /\ pc[1] = "fetching" /\ Len(settled[1]) = 2
    /\ calls[2][1].params.messages[1].content.text[4] = Arg("MSFT")

\* the arguments the tool's inputSchema lists as required
RequiredArgs(tool) ==
    IF tool = FinancialTool THEN {"ticker", "analysis_type"} ELSE {"focus_area"}

\* C16: a call of ai_financial_analysis without ticker or without analysis_type, or
\* of ai_market_insights without focus_area, is rejected with an error and issues no
\* upstream fetch and no sampling request.
C16_RequiredArgsRejected ==
    \A i \in Inv :
        (/\ request[i].name \in {FinancialTool, MarketTool}
         /\ ~(RequiredArgs(request[i].name) \subseteq request[i].given)
         /\ pc[i] # "received") =>
            /\ pc[i] = "threw"
            /\ outcome[i].kind = "error"
            /\ fetchLog[i] = <<>>
            /\ params[i] = NoParams
            /\ calls[i] = <<>>

\* the key given on the command line (empty when there is none)
CommandLineKey == ParseArgs(cli.args, 1, ParsedNothing).apiKey

\* C17: when the CLI is started without an API key on the command line (and not for
\* its help text), it prompts the user to enter one, and the server is started only
\* after a non-empty key has been obtained.
C17_PromptsWithoutKey ==
    (/\ cli.pc \notin {"off", "start"}
     /\ CommandLineKey = <<>>
     /\ ~ParseArgs(cli.args, 1, ParsedNothing).help) =>
        /\ cli.prompts # <<>> /\ cli.prompts[1] = KeyPrompt
        /\ cli.pc = "running" => cli.started.apiKey # <<>>

ProbeOrder == <<"requestSampling", "createMessage", "sendRequest", "request">>

Available(srv) == {n \in 1..Len(ProbeOrder) : ProbeOrder[n] \in srv}

\* C18: the capability probe selects the first available method in the order
\* requestSampling, createMessage, sendRequest, request and invokes exactly that one
\* method; when the server exposes none of them, requestSampling fails without
\* invoking any transport method.
C18_ProbeOrder ==
    \A i \in Inv :
        rs[i] \notin {"idle", "DISPATCHING"} =>
            IF Available(server) = {}
            THEN /\ calls[i] = <<>>
                 /\ rs[i] = "FAILED"
                 /\ analysis[i].thrown
            ELSE /\ Len(calls[i]) = 1
                 /\ \E n \in Available(server) :
                       /\ \A m \in Available(server) : n <= m
                       /\ calls[i][1].via = ProbeOrder[n]

C18_Witness ==
    \E i \in Inv : /\ server = {"sendRequest", "request"}
                   /\ Len(calls[i]) = 1
                   /\ calls[i][1].via = "sendRequest"
                   /\ calls[i][1].method = "sampling/createMessage"

\* required-argument validation of invocation i has passed
Validated(i) == request[i].name = FinancialTool => ArgsOf(i).ticker # ""

InFlightGets(i) == {n \in 1..Len(fetchLog[i]) : fetchStatus[i][n].state = "inflight"}

\* the sampling request of invocation i has been built or handed to the transport
SamplingStarted(i) == params[i] # NoParams \/ rs[i] # "idle" \/ calls[i] # <<>>

\* validation before any fetch, and the response envelope only after the resolver
\* has returned
ValidationFirstEnvelopeLast(i) ==
    /\ fetchLog[i] # <<>> \/ SamplingStarted(i) => Validated(i)
    /\ (request[i].name = FinancialTool /\ ~Validated(i) /\ pc[i] # "received") =>
          /\ pc[i] = "threw"
          /\ outcome[i] = ToolError(<<"Ticker is required for AI financial analysis">>)
          /\ fetchLog[i] = <<>>
          /\ calls[i] = <<>>
    /\ outcome[i].kind = "response" =>
          /\ pc[i] = "returned"
          /\ rs[i] \in {"DONE", "FALLBACK"}
          /\ ~analysis[i].thrown
          /\ Len(calls[i]) <= 1

\* C19 as stated: validation comes before any upstream fetch, the sampling request
\* is dispatched only after every upstream fetch of the invocation has settled, and
\* the response envelope is produced only after the resolver has returned.
C19_FixedOrder ==
    \A i \in Inv :
        /\ ValidationFirstEnvelopeLast(i)
        /\ SamplingStarted(i) => InFlightGets(i) = {}

\* the other get of the pair a ticker's Promise.all waits for
Sibling(n) == IF n % 2 = 1 THEN n + 1 ELSE n - 1

\* C19 amended: validation comes before any upstream fetch; the sampling request is
\* built and dispatched only when the handler waits for no get any more, every get
\* having settled except, in the ticker loop of ai_market_insights, a get whose
\* sibling in the same Promise.all was rejected and which may still be in flight;
\* the response envelope is produced only after the resolver has returned.
C19_OrderedSteps ==
    \A i \in Inv :
        /\ ValidationFirstEnvelopeLast(i)
        /\ SamplingStarted(i) =>
              /\ pending[i] = {}
              /\ \A n \in InFlightGets(i) :
                    /\ request[i].name = MarketTool
                    /\ Len(ArgsOf(i).tickers) > 0
                    /\ fetchStatus[i][Sibling(n)].state = "rejected"

C19_Witness ==
    \E i \in Inv : /\ request[i].name = MarketTool
                   /\ Len(fetchLog[i]) = 4
                   /\ fetchStatus[i][1].state = "rejected"
                   /\ fetchStatus[i][2].state = "inflight"
                   /\ fetchStatus[i][4].state = "fulfilled"
                   /\ Len(calls[i]) = 1
                   /\ pc[i] = "returned"
                   /\ outcome[i].kind = "response"

\* the JSON embedded in the message text right after the heading
EmbeddedAfter(text, heading) ==
    LET at == {n \in 1..(Len(text) - 1) : text[n] = Lit(heading) /\ text[n + 1].k = "json"}
    IN  IF at = {} THEN JUndefined ELSE text[(CHOOSE n \in at : TRUE) + 1].j

\* C20: in ai_financial_analysis the three upstream fetches (company facts, metrics
\* snapshot, price snapshot) are all issued before any of them is waited for or has
\* settled, and the request built after the join embeds the company facts, the
\* metrics and the price data each under its own heading, in whatever order the
\* three fetches completed.
C20_JoinOrderIrrelevant ==
    \A i \in Inv :
        request[i].name = FinancialTool =>
            LET t == ArgsOf(i).ticker
            IN  /\ fetchLog[i] \in {<<>>, FinancialGets(t)}
                /\ \A n \in 1..Len(settled[i]) : Len(fetchLog[i]) = 3
                /\ params[i] # NoParams =>
                      LET text == MessageText(i)
                      IN  /\ {settled[i][n] : n \in 1..Len(settled[i])} = {1, 2, 3}
                          /\ EmbeddedAfter(text, ".\n\n**Company Data:**\n") = CompanyFacts(t)
                          /\ EmbeddedAfter(text, "\n\n**Financial Metrics:**\n") = MetricsSnapshot(t)
                          /\ EmbeddedAfter(text, "\n\n**Current Price Data:**\n") = PriceSnapshot(t)
                          /\ params[i] =
                                SamplingParams(
                                    FinancialMessages(ArgsOf(i), CompanyFacts(t),
                                                      MetricsSnapshot(t), PriceSnapshot(t)),
                                    FinancialSystemPrompt(ArgsOf(i)), FinancialPreferences)

C20_Witness ==
    \E i \in Inv : /\ request[i].name = FinancialTool
                   /\ settled[i] = <<3, 1, 2>>
                   /\ Len(calls[i]) = 1
                   /\ EmbeddedAfter(calls[i][1].params.messages[1].content.text,
                                    ".\n\n**Company Data:**\n") = CompanyFacts("AAPL")

\* the text of the tool response of invocation i
ResponseText(i) == outcome[i].content[1].text

\* the text opens with the tool's header, ends with its provenance footer and the
\* current time, and has the value v between the two
InEnvelope(i, v) ==
    LET text == ResponseText(i)
        header == IF request[i].name = FinancialTool
                  THEN Lit("AI Financial Analysis for ") ELSE Lit("AI Market Insights (")
        footer == IF request[i].name = FinancialTool
                  THEN Lit("\n\n---\nData Sources: Company Facts, Financial Metrics, Current Price Data\nAnalysis Generated: ")
                  ELSE Lit("\n\n---\nAnalysis Focus: ")
    IN  /\ text[1] = header
        /\ text[Len(text)] = IsoNow
        /\ \E n \in 2..(Len(text) - 2) :
              /\ text[n - 1] = Lit("):\n\n")
              /\ text[n] = Value(v)
              /\ text[n + 1] = footer
              /\ \A m \in 1..Len(text) : text[m].k = "value" /\ text[m] = Value(v) => m = n

\* C21: when requestSampling degrades to the fixed fallback text, the tool call never
\* ends as an error: it completes as a normal tool response (one text content item)
\* whose text has the fallback message between the usual header and footer.
C21_FallbackIsNormalResponse ==
    \A i \in Inv :
        rs[i] = "FALLBACK" =>
            /\ analysis[i].value = FallbackText
            /\ pc[i] \in {"sampling", "returned"}
            /\ outcome[i].kind # "error"
            /\ pc[i] = "returned" =>
                  /\ outcome[i].kind = "response"
                  /\ Len(outcome[i].content) = 1
                  /\ outcome[i].content[1].type = "text"
                  /\ InEnvelope(i, FallbackText)

C21_Witness ==
    \E i \in Inv : /\ rs[i] = "FALLBACK"
                   /\ client[i].kind = "reject"
                   /\ HasSignature(client[i].message)
                   /\ pc[i] = "returned"
                   /\ request[i].name = FinancialTool
                   /\ outcome[i].kind = "response"
                   /\ InEnvelope(i, FallbackText)

\* the four specific-shape checks of the cascade, as conditions on the reply
StandardFormat(reply) ==
    /\ Truthy(Get(reply, "content"))
    /\ Get(Get(reply, "content"), "type") = JStr("text")
    /\ Truthy(Get(Get(reply, "content"), "text"))
DirectText(reply) == NonEmptyString(Get(reply, "text"))
ResultFormat(reply) == Truthy(Get(Get(Get(reply, "result"), "content"), "text"))
ContentAsString(reply) == Get(reply, "content").k = "string"

SpecificShape(reply) ==
    StandardFormat(reply) \/ DirectText(reply) \/ ResultFormat(reply) \/ ContentAsString(reply)

RECURSIVE Candidates(_)
RECURSIVE CandidatesFrom(_, _)
\* every match in the tree of v, in the order of a depth-first visit in key order
\* that looks at a node's own text, content and message before its children
Candidates(v) ==
    IF v.k = "string" THEN (IF v.s # "" THEN <<v>> ELSE <<>>)
    ELSE IF v.k \in {"object", "array"}
    THEN SelectSeq(<<Get(v, "text"), Get(v, "content"), Get(v, "message")>>, NonEmptyString)
         \o CandidatesFrom(v, 1)
    ELSE <<>>

CandidatesFrom(v, n) ==
    IF n > Len(v.f) THEN <<>> ELSE Candidates(v.f[n][2]) \o CandidatesFrom(v, n + 1)

\* the recursive scan was applied to the reply of invocation i: its match was
\* returned, or it found nothing
ScanMatched(i) == rs[i] = "DONE" /\ analysis[i].shape = "found recursively"
ScanFoundNothing(i) ==
    /\ rs[i] = "FAILED"
    /\ analysis[i].error[Len(analysis[i].error)] = "No text content found in sampling response"

\* C22: findTextInObject is applied to a reply exactly when the reply is an object
\* and none of the four specific-shape checks holds; what it yields is the first
\* match of a depth-first visit in key order that checks a node's own text, content
\* and message fields before descending, and an error when there is no match.
C22_ScanLastDepthFirst ==
    \A i \in Inv :
        Normalised(i) =>
            LET reply == response[i]
                isObject == reply.k \in {"object", "array"}
            IN  /\ (ScanMatched(i) \/ ScanFoundNothing(i)) <=>
                      (isObject /\ ~SpecificShape(reply))
                /\ ScanMatched(i) =>
                      /\ Candidates(reply) # <<>>
                      /\ analysis[i].value = Head(Candidates(reply))
                /\ ScanFoundNothing(i) => Candidates(reply) = <<>>

\* m is a message of the user with text content
UserTextMessage(m) ==
    /\ DOMAIN m = {"role", "content"}
    /\ m.role = "user"
    /\ DOMAIN m.content = {"type", "text"}
    /\ m.content.type = "text"
    /\ Len(m.content.text) > 0
    /\ \A n \in 1..Len(m.content.text) :
          m.content.text[n].k \in {"lit", "arg", "json", "join"}

\* C23: every request either tool hands to the transport has a non-empty messages
\* sequence, each entry of which has role "user" and text content, and a maxTokens
\* that is a positive integer.
C23_WellFormedRequest ==
    \A i \in Inv : \A n \in 1..Len(calls[i]) :
        LET sent == calls[i][n].params
        IN  /\ Len(sent.messages) >= 1
            /\ \A k \in 1..Len(sent.messages) : UserTextMessage(sent.messages[k])
            /\ sent.maxTokens \in Nat \ {0}

C23_Witness ==
    \E i \in Inv : /\ request[i].name = MarketTool
                   /\ Len(ArgsOf(i).tickers) = 2
                   /\ Len(calls[i]) = 1
                   /\ calls[i][1].via = "createMessage"
                   /\ Len(calls[i][1].params.messages) = 1
                   /\ UserTextMessage(calls[i][1].params.messages[1])
                   /\ calls[i][1].params.maxTokens = 4000

\* the systemPrompt argument of the call of requestSampling: "" when left out
GivenSystemPrompt(i) ==
    IF "systemPrompt" \in request[i].given THEN request[i].arguments.systemPrompt ELSE <<>>

GenericPersona ==
    << Lit("You are a financial analysis expert. Provide clear, accurate, and actionable insights.") >>

\* C24: when requestSampling is called with systemPrompt left out or empty, the
\* systemPrompt of the request it builds and dispatches is the generic
\* financial-analyst persona; a non-empty systemPrompt is dispatched unchanged.
C24_SystemPromptDefault ==
    \A i \in Inv :
        LET expected == IF GivenSystemPrompt(i) = <<>> THEN GenericPersona
                        ELSE GivenSystemPrompt(i)
        IN  /\ params[i] # NoParams => params[i].systemPrompt = expected
            /\ \A n \in 1..Len(calls[i]) : calls[i][n].params.systemPrompt = expected

C24_Witness ==
    \E i \in Inv : /\ "systemPrompt" \in request[i].given
                   /\ request[i].arguments.systemPrompt = <<>>
                   /\ Len(calls[i]) = 1
                   /\ calls[i][1].params.systemPrompt = GenericPersona

\* the value the handler works with for the analysis type (focus area): the caller's,
\* or the default when the caller gave none
TopicOf(i) ==
    IF request[i].name = FinancialTool THEN ArgsOf(i).analysis_type ELSE ArgsOf(i).focus_area

EnumeratedTopics(tool) == IF tool = FinancialTool THEN AnalysisTypes ELSE FocusAreas

\* C25: for every invocation of either tool, the systemPrompt of the dispatched
\* request contains the caller's analysis type (focus area) verbatim, and that value
\* is one of the values the tool enumerates.
C25_PromptNamesEnumeratedTopic ==
    \A i \in Inv : \A n \in 1..Len(calls[i]) :
        LET prompt == calls[i][n].params.systemPrompt
        IN  /\ \E k \in 1..Len(prompt) : prompt[k] = Arg(TopicOf(i))
            /\ TopicOf(i) \in EnumeratedTopics(request[i].name)

\* the field the cascade takes the text from in the standard format or the result
\* format (the two checks that do not test the type of the text)
MatchedField(reply) ==
    IF StandardFormat(reply) THEN Get(Get(reply, "content"), "text")
    ELSE IF ~DirectText(reply) /\ ResultFormat(reply)
    THEN Get(Get(Get(reply, "result"), "content"), "text")
    ELSE JUndefined

\* C26: whenever requestSampling returns normally (extracted text or fallback), the
\* value it returns is a string; a reply whose matched text field holds a truthy value
\* that is not a string ends in an error and the tool call is never a normal response.
C26_ReturnsStringOnly ==
    \A i \in Inv :
        /\ rs[i] \in {"DONE", "FALLBACK"} =>
              ~analysis[i].thrown /\ analysis[i].value.k = "string"
        /\ (/\ Normalised(i)
            /\ response[i].k \in {"object", "array"}
            /\ MatchedField(response[i]).k \in {"number", "object", "array"}) =>
              /\ rs[i] = "FAILED"
              /\ analysis[i].thrown
              /\ analysis[i].value = JUndefined
              /\ outcome[i].kind # "response"

C26_Witness ==
    \E i \in Inv :
        /\ Normalised(i)
        /\ ~StandardFormat(response[i])
        /\ MatchedField(response[i]) = JArr(<<JStr("A"), JStr("B")>>)
        /\ Get(response[i], "message") = JStr("B")
        /\ rs[i] = "FAILED"
        /\ pc[i] = "threw"
        /\ outcome[i].kind = "error"

\* the transport call of invocation i, if one is made, resolves or rejects
TransportSettles(i) == client[i].kind # "never" \/ SelectMethod(server) = ""

\* requestSampling returned a text / threw an error
ReturnedNormally(i) == rs[i] \in {"DONE", "FALLBACK"} /\ ~analysis[i].thrown
ThrewError(i) == rs[i] = "FAILED" /\ analysis[i].thrown
Terminal(i) == rs[i] \in {"DONE", "FALLBACK", "FAILED"}

\* C27: if the transport call resolves or rejects, every invocation that entered
\* requestSampling eventually ends it with a returned text or with a thrown error, and
\* the tool call with a response or an error; the ending is one of the two, never
\* both, and it is never replaced by another.
C27_OneTerminalOutcome ==
    /\ \A i \in Invocations :
          (rs[i] = "DISPATCHING" /\ TransportSettles(i)) ~> Terminal(i)
    /\ \A i \in Invocations :
          (pc[i] = "sampling" /\ TransportSettles(i)) ~> (outcome[i].kind \in {"response", "error"})
    /\ [](\A i \in Invocations :
            /\ Terminal(i) => (ReturnedNormally(i) /\ analysis[i].error = <<>>) \/
                              (ThrewError(i) /\ analysis[i].value = JUndefined)
            /\ ~(ReturnedNormally(i) /\ ThrewError(i))
            /\ outcome[i].kind = "response" => ReturnedNormally(i)
            /\ (outcome[i].kind = "error" /\ rs[i] # "idle") => ThrewError(i))
    /\ [][\A i \in Invocations :
            Terminal(i) => rs[i]' = rs[i] /\ analysis[i]' = analysis[i]]_vars

C27_Witness ==
    \E i \in Inv : /\ client[i].kind = "resolve"
                   /\ response[i] \in StructuredTextReplies
                   /\ Len(calls[i]) = 1
                   /\ ThrewError(i)
                   /\ pc[i] = "threw"
                   /\ outcome[i].kind = "error"

\* requestSampling of invocation i took the placeholder path
TookFallback(i) == rs[i] = "FALLBACK" \/ analysis[i].shape = "fallback"

\* C28: the fixed fallback text is returned only after a transport method was invoked
\* and rejected with an Error carrying the malformed-reply signature: never when no
\* method was invoked, and never after the call resolved (an error raised while
\* normalising a delivered reply is thrown on).
C28_FallbackOnlyAfterRejection ==
    \A i \in Inv :
        /\ TookFallback(i) =>
              /\ Len(calls[i]) = 1
              /\ calls[i][1].via = SelectMethod(server)
              /\ client[i].kind = "reject"
              /\ client[i].isError
              /\ MessageHasSignature(client[i].message)
              /\ response[i] = JUndefined
        /\ (calls[i] = <<>> /\ rs[i] \notin {"idle", "DISPATCHING"}) =>
              rs[i] = "FAILED" /\ analysis[i].thrown
        /\ (client[i].kind = "resolve" /\ Len(calls[i]) = 1 /\ rs[i] \notin {"AWAITING", "NORMALIZING"}) =>
              /\ rs[i] \in {"DONE", "FAILED"}
              /\ rs[i] = "FAILED" => analysis[i].thrown /\ FallbackText # analysis[i].value

C28_Witness ==
    \E i \in Inv : /\ server = {"sendRequest"}
                   /\ Len(calls[i]) = 1
                   /\ calls[i][1].via = "sendRequest"
                   /\ client[i] = Reject(TRUE, <<Signature, " (reading 'parse')">>)
                   /\ TookFallback(i)
                   /\ analysis[i].value = FallbackText
                   /\ pc[i] = "returned"

\* requestSampling of invocation i failed before a reply could be used: no method to
\* call, or the call was rejected
DispatchFailed(i) == calls[i] = <<>> /\ rs[i] \notin {"idle", "DISPATCHING"}
NormalizeFailed(i) == Normalised(i) /\ rs[i] = "FAILED"

\* the message of the underlying cause of the failure of invocation i
CauseMessage(i) ==
    IF DispatchFailed(i)
    THEN <<"Server instance does not support making requests to client">>
    ELSE IF RejectedWith(i) THEN client[i].message
    ELSE IF response[i].k \notin {"object", "array"}
    THEN <<"Received unexpected response format from sampling request">>
    ELSE IF ~SpecificShape(response[i]) /\ IsThrow(findTextInObject(response[i]))
    THEN <<"obj.hasOwnProperty is not a function">>
    ELSE IF Candidates(response[i]) = <<>> /\ ~SpecificShape(response[i])
    THEN <<"No text content found in sampling response">>
    ELSE <<"extractedText.substring is not a function">>

ToolWrapper(i) ==
    IF request[i].name = FinancialTool THEN "Failed to generate AI financial analysis: "
    ELSE "Failed to generate AI market insights: "

\* the tool call ended as one error: both wrappers in front, then the rest
WrappedError(i, rest) ==
    /\ outcome[i].kind = "error"
    /\ outcome[i].content = <<>>
    /\ \E step \in {<<"Sampling request failed: ">>, <<"Failed to parse sampling response: ">>} :
          outcome[i].error = <<ToolWrapper(i), "Failed to request LLM analysis: ">> \o step \o rest

\* C29 as stated: every failure inside requestSampling (no method, rejected call,
\* unexpected format, no text) reaches the tool caller as one error with both
\* wrappers in front and the cause's message in it; none gives a normal response.
C29_EveryFailureWrapped ==
    \A i \in Inv :
        (pc[i] \in {"returned", "threw"}
         /\ (DispatchFailed(i) \/ RejectedWith(i) \/ NormalizeFailed(i))) =>
            WrappedError(i, CauseMessage(i))

\* C29 amended: every error requestSampling throws reaches the tool caller as one
\* error with both wrappers in front, and no such call gives a normal response; the
\* cause's message is kept when the cause is an Error, while a rejection with a value
\* that is not an Error is reported as "Unknown error"; a rejection with an Error
\* carrying the malformed-reply signature is no failure for the caller (a normal
\* response with the fallback text); and a rejection with a value that cannot be
\* serialised for the log, whatever its message, reaches the caller as the
\* TypeError of JSON.stringify behind the two wrappers, the message of the
\* rejection lost.
C29_ThrownErrorsWrapped ==
    \A i \in Inv :
        (pc[i] \in {"returned", "threw"}
         /\ (DispatchFailed(i) \/ RejectedWith(i) \/ NormalizeFailed(i))) =>
            IF RejectedWith(i) /\ client[i].circular
            THEN /\ outcome[i].kind = "error"
                 /\ outcome[i].content = <<>>
                 /\ outcome[i].error =
                       <<ToolWrapper(i), "Failed to request LLM analysis: ">> \o CircularMessage
            ELSE IF RejectedWith(i) /\ client[i].isError
                    /\ MessageHasSignature(client[i].message)
            THEN outcome[i].kind = "response" /\ analysis[i].value = FallbackText
            ELSE IF RejectedWith(i) /\ ~client[i].isError
            THEN WrappedError(i, <<"Unknown error">>)
            ELSE WrappedError(i, CauseMessage(i))

C29_Witness ==
    \E i \in Inv : /\ pc[i] = "threw"
                   /\ RejectedWith(i)
                   /\ ~client[i].isError
                   /\ client[i].message = <<"Request timed out">>
                   /\ request[i].name = MarketTool
                   /\ WrappedError(i, <<"Unknown error">>)

\* the tickers whose data is in the market data of the dispatched request
IncludedTickers(i) ==
    LET data == Get(MarketDataOf(i), "specificTickers")
    IN  [n \in 1..Len(data.f) |-> data.f[n][1]]

\* the gets of ai_market_insights are those of the first five tickers at most, two for
\* each, in input order
FirstFiveInOrder(i) ==
    LET tickers == ArgsOf(i).tickers
    IN  /\ Len(fetchLog[i]) <= 2 * 5
        /\ \A n \in 1..Len(fetchLog[i]) :
              /\ (n + 1) \div 2 <= Len(tickers)
              /\ fetchLog[i][n][2] = tickers[(n + 1) \div 2]
              /\ fetchLog[i][n][1] = IF n % 2 = 1 THEN "/company/facts"
                                     ELSE "/financial-metrics/snapshot"

\* C30: ai_market_insights issues gets for at most the first five requested tickers,
\* one ticker after another in input order, and the ticker count of the response
\* footer (Data Coverage) and the tickers listed in the request text are the tickers
\* whose data is in the dispatched market data.
C30_CoverageMatchesData ==
    \A i \in Inv :
        (request[i].name = MarketTool /\ Len(ArgsOf(i).tickers) > 0) =>
            /\ FirstFiveInOrder(i)
            /\ pending[i] = {} \/ Cardinality(pending[i]) = 2
            /\ params[i] # NoParams =>
                  \E n \in 1..Len(MessageText(i)) :
                      MessageText(i)[n] = Joined(IncludedTickers(i))
            /\ outcome[i].kind = "response" =>
                  \E n \in 1..Len(ResponseText(i)) :
                      /\ ResponseText(i)[n] = Lit("\nData Coverage: ")
                      /\ ResponseText(i)[n + 1] =
                            Value(JNum(ToString(Len(IncludedTickers(i)))))

====
